---- MODULE Spec2Model ----
(***************************************************************************)
(* Model of the company research engine (src/core/mcp_search.py), the MCP  *)
(* client and its singleton manager (src/core/mcp_client.py) and the       *)
(* service entry points (src/core/company_service.py,                      *)
(* src/core/report_service.py, src/ui/handlers.py).                        *)
(*                                                                         *)
(* Strings are sequences of tokens: a query is the sequence of its         *)
(* whitespace-separated words, a backend answer the sequence of its        *)
(* lexical tokens, a content text the sequence of its words.  Japanese     *)
(* literals of the source are written as ASCII tags.                       *)
(***************************************************************************)
EXTENDS Integers, Sequences, FiniteSets, TLC

\* ------------------------------------------------------------------ bounds
\* Backend answers that differ from the nominal one (per search() call),
\* counted over the per-query and per-link calls.
MaxSurprises == 1
MaxCallers == 2
MaxHandles == 2
MaxCalls == 3

\* ------------------------------------------------------- program constants
iteration_limit == 3

\* ---------------------------------------------------------------- helpers
None == <<"<None>">>
EmptyStr == <<>>
Truthy(s) == s # None /\ s # EmptyStr

Min(a, b) == IF a < b THEN a ELSE b

RECURSIVE SeqConcat(_)
SeqConcat(ss) == IF ss = <<>> THEN <<>> ELSE Head(ss) \o SeqConcat(Tail(ss))

IsPrefix(s, t) == Len(s) <= Len(t) /\ SubSeq(t, 1, Len(s)) = s

Contains(s, x) == \E i \in 1..Len(s) : s[i] = x

\* sub in text, both sequences of words
IsSubstring(sub, text) ==
    \E i \in 0..(Len(text) - Len(sub)) : SubSeq(text, i + 1, i + Len(sub)) = sub

\* ------------------------------------------------ tokens of backend answers
Tok(t) == [t |-> t, v |-> <<>>]
Lit(q) == [t |-> "lit", v |-> q]      \* a quoted string literal
LB == Tok("[")
RB == Tok("]")
Comma == Tok(",")
Ws == Tok("ws")                       \* whitespace
Prose == Tok("prose")                 \* any other word

\* text.find(c): index of the first occurrence, 0 when absent
Find(text, c) ==
    IF Contains(text, c)
    THEN CHOOSE i \in 1..Len(text) : text[i] = c /\ \A j \in 1..(i - 1) : text[j] # c
    ELSE 0
\* text.rfind(c): index of the last occurrence, 0 when absent
first_not_last(text, c) == Find(text, c)
RFind(text, c) ==
    IF Contains(text, c)
    THEN CHOOSE i \in 1..Len(text) :
             text[i] = c /\ \A j \in (i + 1)..Len(text) : text[j] # c
    ELSE 0

\* str.strip()
RECURSIVE LStrip(_)
LStrip(text) ==
    IF text # <<>> /\ Head(text) = Ws THEN LStrip(Tail(text)) ELSE text
RECURSIVE RStrip(_)
RStrip(text) ==
    IF text # <<>> /\ text[Len(text)] = Ws
    THEN RStrip(SubSeq(text, 1, Len(text) - 1)) ELSE text
Strip(text) == RStrip(LStrip(text))

\* str(list of str): the Python literal of a list
RECURSIVE PyReprItems(_)
PyReprItems(qs) ==
    IF qs = <<>> THEN <<>>
    ELSE IF Len(qs) = 1 THEN <<Lit(qs[1])>>
    ELSE <<Lit(qs[1]), Comma, Ws>> \o PyReprItems(Tail(qs))
PyRepr(qs) == <<LB>> \o PyReprItems(qs) \o <<RB>>

\* eval(text) for the literals the token language can express:
\* a list display of string literals, a lone string literal; anything else
\* raises.  Result: [kind: "list" | "str" | "raise", items].
\* 'a b' 'c d' is the one literal 'a bc d': adjacent literals are joined
Glue(v, w) ==
    IF v = <<>> THEN w
    ELSE IF w = <<>> THEN v
    ELSE SubSeq(v, 1, Len(v) - 1) \o <<v[Len(v)] \o w[1]>> \o Tail(w)
RECURSIVE ParseItems(_)
ParseItems(toks) ==
    \* toks: the tokens between the brackets, whitespace removed
    IF toks = <<>> THEN [ok |-> TRUE, items |-> <<>>]
    ELSE IF Head(toks).t # "lit" THEN [ok |-> FALSE, items |-> <<>>]
    ELSE IF Len(toks) = 1 THEN [ok |-> TRUE, items |-> <<Head(toks).v>>]
    ELSE IF toks[2].t = "lit"
    THEN ParseItems(<<Lit(Glue(toks[1].v, toks[2].v))>> \o SubSeq(toks, 3, Len(toks)))
    ELSE IF toks[2] # Comma THEN [ok |-> FALSE, items |-> <<>>]
    ELSE LET rest == ParseItems(SubSeq(toks, 3, Len(toks)))
         IN  IF rest.ok
             THEN [ok |-> TRUE, items |-> <<Head(toks).v>> \o rest.items]
             ELSE rest
DropWs(text) == SelectSeq(text, LAMBDA x : x # Ws)
PyEval(text) ==
    LET toks == DropWs(text)
    IN  IF toks = <<>> THEN [kind |-> "raise", items |-> <<>>]
        ELSE IF \A i \in 1..Len(toks) : toks[i].t = "lit"
             THEN [kind |-> "str", items |-> ParseItems(toks).items]
        ELSE IF toks[1] = LB /\ toks[Len(toks)] = RB
             THEN LET p == ParseItems(SubSeq(toks, 2, Len(toks) - 1))
                  IN  IF p.ok THEN [kind |-> "list", items |-> p.items]
                      ELSE [kind |-> "raise", items |-> <<>>]
        ELSE [kind |-> "raise", items |-> <<>>]

\* ------------------------------------------------------------ process log
Entry(step, error) == [step |-> step, error |-> error]

\* ------------------------------------------------------------------- URLs
Url(host, path) == [host |-> host, path |-> path]
UrlOfficial == Url(<<"acme", "example">>, <<"about", "html">>)
UrlNews == Url(<<"news", "example">>, <<"acme", "html">>)
UrlWiki == Url(<<"en", "wikipedia", "org">>, <<"wiki", "Acme", "html">>)
UrlPdf == Url(<<"acme", "example">>, <<"ir", "PDF">>)
\* "https://example.com/search-failed"
UrlSearchFailed == Url(<<"example", "com">>, <<"search-failed">>)

Lower(tok) == IF tok = "PDF" THEN "pdf" ELSE tok

\* ----------------------------------------------------------- query texts
company_name_of(query) == IF query = <<>> THEN <<>> ELSE <<Head(query)>>

default_query_1(cn) == cn \o <<"daihyo_torishimariyaku", "yakuin_ichiran">>
default_query_2(cn) == cn \o <<"kaisha_gaiyo", "setsuritsu_nen", "shihonkin">>
default_query_3(cn) == cn \o <<"jigyo_naiyo", "shuyo_seihin", "service">>
default_query_4(cn) == cn \o <<"kigyo_rinen", "keiei_rinen">>
default_queries_4(cn) ==
    <<default_query_1(cn), default_query_2(cn), default_query_3(cn), default_query_4(cn)>>
fallback_without_third(cn) == <<default_query_1(cn), default_query_2(cn)>>
default_queries_3(cn) ==
    <<default_query_1(cn), default_query_2(cn), default_query_3(cn)>>

\* --------------------------------------------------------- generate_query
\* resp: the generative backend's outcome, [kind: raise | none | text, content].
\* Returns the text handed to eval() and the entries appended to the log.
generate_query(query, resp) ==
    LET cn == company_name_of(query)
        logged == <<Entry("query_generation", "")>>
    IN  IF resp.kind = "raise"
        THEN [ret |-> PyRepr(default_queries_3(cn)),
              log |-> <<Entry("query_generation_error", "backend_error")>>]
        ELSE IF resp.kind = "none"
        THEN \* '[' in None raises TypeError inside the try
             [ret |-> PyRepr(default_queries_3(cn)),
              log |-> logged \o <<Entry("query_generation_error", "TypeError")>>]
        ELSE IF Contains(resp.content, LB) /\ Contains(resp.content, RB)
        THEN [ret |-> SubSeq(resp.content, Find(resp.content, LB),
                             RFind(resp.content, RB)),
              log |-> logged]
        ELSE [ret |-> PyRepr(default_queries_4(cn)), log |-> logged]

\* search(), lines 586-608: the initial batch
initial_queries(query, gq) ==
    LET custom == PyEval(gq.ret)
    IN  IF custom.kind = "list" /\ Len(custom.items) > 0
        THEN custom.items
        ELSE default_queries_4(company_name_of(query))

\* ------------------------------------------------------------- web_search
\* resp: [kind: raise | nokey | results, items], an item [has_url, url].
Item(u) == [has_url |-> TRUE, url |-> u]
ItemNoUrl == [has_url |-> FALSE, url |-> Url(<<>>, <<>>)]

RECURSIVE ResultUrls(_)
ResultUrls(items) ==
    IF items = <<>> THEN <<>>
    ELSE (IF Head(items).has_url THEN <<Head(items).url>> ELSE <<>>)
         \o ResultUrls(Tail(items))

\* an item that is None: '"url" in result' raises TypeError
ItemNone == [has_url |-> FALSE, url |-> Url(<<"<None>">>, <<>>)]
\* the position of the first item that raises, 0 when none does
FirstRaising(items) ==
    IF Contains(items, ItemNone)
    THEN CHOOSE i \in 1..Len(items) :
             items[i] = ItemNone /\ \A j \in 1..(i - 1) : items[j] # ItemNone
    ELSE 0

\* line 193: links = [sentinel], whatever was gathered before the exception
links_with_sentinel(links) == Append(links, UrlSearchFailed)
links_on_error(links) == <<UrlSearchFailed>>

web_search(q, resp) ==
    IF resp.kind = "raise"
    THEN [links |-> links_on_error(<<>>),
          log |-> <<Entry("web_search_error", "backend_error")>>]
    ELSE IF resp.kind = "nokey"
    THEN [links |-> <<>>, log |-> <<Entry("web_search", "no_results")>>]
    ELSE IF FirstRaising(resp.items) # 0
    THEN [links |-> links_on_error(
                        ResultUrls(SubSeq(resp.items, 1, FirstRaising(resp.items) - 1))),
          log |-> <<Entry("web_search_error", "TypeError")>>]
    ELSE [links |-> ResultUrls(resp.items), log |-> <<Entry("web_search", "")>>]

\* ----------------------------------------------------- plain-text helpers
\* Page texts, backend verdicts and extracted blocks are sequences of word
\* tokens; "ws" is whitespace, "para" a blank line, "nl" a line break.
RECURSIVE LStripW(_)
LStripW(text) ==
    IF text # <<>> /\ Head(text) \in {"ws", "para", "nl"}
    THEN LStripW(Tail(text)) ELSE text
RECURSIVE RStripW(_)
RStripW(text) ==
    IF text # <<>> /\ text[Len(text)] \in {"ws", "para", "nl"}
    THEN RStripW(SubSeq(text, 1, Len(text) - 1)) ELSE text
StripW(text) == RStripW(LStripW(text))

\* ---------------------------------------------------- extract_text_from_pdf
OfficerTitles == {"daihyo_torishimariyaku", "torishimariyaku", "shacho",
                  "shikko_yakuin", "yakuin_ichiran"}

\* the tokens before the first blank line
RECURSIVE UpToPara(_)
UpToPara(text) ==
    IF text = <<>> \/ Head(text) = "para" THEN <<>>
    ELSE <<Head(text)>> \o UpToPara(Tail(text))

\* re.findall(officer_pattern, text, re.DOTALL): the (title, content) pairs
RECURSIVE Officers(_)
Officers(text) ==
    IF text = <<>> THEN <<>>
    ELSE IF Head(text) \in OfficerTitles
    THEN LET content == UpToPara(Tail(text))
         IN  <<[title |-> Head(text), content |-> content]>>
             \o Officers(SubSeq(text, Len(content) + 2, Len(text)))
    ELSE Officers(Tail(text))

RECURSIVE OfficerBlocks(_)
OfficerBlocks(found) ==
    IF found = <<>> THEN <<>>
    ELSE <<"para", Head(found).title, ":", "nl">> \o StripW(Head(found).content)
         \o <<"nl">> \o OfficerBlocks(Tail(found))

\* resp: [kind: raise | status | pdf, content]
extract_text_from_pdf(resp) ==
    IF resp.kind = "status" THEN <<"pdf_download_failed", "status_code">>
    ELSE IF resp.kind = "raise" THEN <<"pdf_parse_error", "exception">>
    ELSE resp.content \o OfficerBlocks(Officers(resp.content))

\* ------------------------------------------------------- fetch_webpage_text
is_pdf(url) == Len(url.path) > 0 /\ Lower(url.path[Len(url.path)]) = "pdf"

\* resp for a page: [kind: raise | noresults | result, content, structured];
\* for a PDF the resp of extract_text_from_pdf.
fetch_webpage_text(url, resp) ==
    IF is_pdf(url)
    THEN [ret |-> extract_text_from_pdf(resp),
          log |-> <<Entry("pdf_processing", "")>>]
    ELSE IF resp.kind = "raise"
    THEN [ret |-> EmptyStr, log |-> <<Entry("webpage_fetch_error", "backend_error")>>]
    ELSE IF resp.kind = "noresults"
    THEN [ret |-> EmptyStr, log |-> <<Entry("webpage_fetch", "no_content")>>]
    ELSE [ret |-> IF resp.structured # <<>>
                  THEN resp.content \o <<"para", "structured_data:", "nl">>
                       \o resp.structured
                  ELSE resp.content,
          log |-> <<Entry("webpage_fetch", "")>>]

\* --------------------------------------------------------- page_text[:20000]
\* A token is one character wide at least; "bulk" stands for a run of
\* page_text_limit characters of ordinary page text.
page_text_limit == 20000
TokenWidth(tok) == IF tok = "bulk" THEN page_text_limit ELSE 1
RECURSIVE Truncate(_, _)
Truncate(text, n) ==
    IF text = <<>> \/ TokenWidth(Head(text)) > n THEN <<>>
    ELSE <<Head(text)>> \o Truncate(Tail(text), n - TokenWidth(Head(text)))
\* lines 207 and 256: the page text placed in the prompt
prompt_page_text(page_text) == Truncate(page_text, page_text_limit)

\* ---------------------------------------------------------------- if_useful
\* resp: [kind: raise | none | text, content]; no handler around the call.
if_useful(resp) ==
    IF resp.kind = "raise" THEN [exc |-> "backend_error", ret |-> "", log |-> <<>>]
    ELSE LET logged == <<Entry("usefulness_evaluation", "")>>
             answer == StripW(resp.content)
         IN  IF resp.kind = "none" \/ resp.content = <<>>
             THEN [exc |-> "", ret |-> "No", log |-> logged]
             ELSE IF Len(answer) = 1 /\ answer[1] \in {"hai", "iie", "Yes", "No"}
             THEN [exc |-> "",
                   ret |-> IF answer[1] \in {"hai", "Yes"} THEN "Yes" ELSE "No",
                   log |-> logged]
             ELSE IF Contains(answer, "hai") \/ Contains(answer, "Yes")
             THEN [exc |-> "", ret |-> "Yes", log |-> logged]
             ELSE [exc |-> "", ret |-> "No", log |-> logged]

\* --------------------------------------------------- extract_relevant_context
extract_relevant_context(resp) ==
    IF resp.kind = "raise" THEN [exc |-> "backend_error", ret |-> EmptyStr, log |-> <<>>]
    ELSE [exc |-> "",
          ret |-> IF resp.kind = "none" THEN EmptyStr ELSE StripW(resp.content),
          log |-> <<Entry("information_extraction", "")>>]

\* -------------------------------------------------------------- process_link
\* out: [fetch, useful, extract], the outcomes of the three backend calls.
\* Returns the block (None when the link yields nothing), the log entries,
\* the exception that escapes ("" when none) and the calls made, in order.
process_link_ungated(link, out) ==
    LET f == fetch_webpage_text(link, out.fetch)
        u == if_useful(out.useful)
        x == extract_relevant_context(out.extract)
    IN  [ret |-> IF x.exc = "" /\ Truthy(x.ret) THEN x.ret ELSE None, exc |-> x.exc,
         log |-> f.log \o u.log \o x.log,
         calls |-> <<"fetch", "if_useful", "extract">>]
process_link(link, out) ==
    LET f == fetch_webpage_text(link, out.fetch)
        u == if_useful(out.useful)
        x == extract_relevant_context(out.extract)
    IN  IF ~Truthy(f.ret)
        THEN [ret |-> None, exc |-> "", log |-> f.log, calls |-> <<"fetch">>]
        ELSE IF u.exc # ""
        THEN [ret |-> None, exc |-> u.exc, log |-> f.log \o u.log,
              calls |-> <<"fetch", "if_useful">>]
        ELSE IF u.ret # "Yes"
        THEN [ret |-> None, exc |-> "", log |-> f.log \o u.log,
              calls |-> <<"fetch", "if_useful">>]
        ELSE IF x.exc # ""
        THEN [ret |-> None, exc |-> x.exc, log |-> f.log \o u.log \o x.log,
              calls |-> <<"fetch", "if_useful", "extract">>]
        ELSE [ret |-> IF Truthy(x.ret) THEN x.ret ELSE None, exc |-> "",
              log |-> f.log \o u.log \o x.log,
              calls |-> <<"fetch", "if_useful", "extract">>]

\* --------------------------------------------------- get_new_search_queries
\* resp: [kind: raise | none | text, content].  The Python value returned is
\* [kind: "str" | "list", items]: the empty string, or a list.
PyList(items) == [kind |-> "list", items |-> items]
PyEmptyStr == [kind |-> "str", items |-> <<>>]

get_new_search_queries(resp) ==
    IF resp.kind = "raise" THEN [exc |-> "backend_error", ret |-> PyList(<<>>), log |-> <<>>]
    ELSE LET logged == <<Entry("next_query_decision", "")>>
             cleaned == Strip(resp.content)
             decoded == PyEval(cleaned)
         IN  IF resp.kind = "none" \/ resp.content = <<>>
             THEN [exc |-> "", ret |-> PyList(<<>>), log |-> logged]
             ELSE IF cleaned = <<>>
             THEN [exc |-> "", ret |-> PyEmptyStr, log |-> logged]
             ELSE IF decoded.kind = "list"
             THEN [exc |-> "", ret |-> PyList(decoded.items), log |-> logged]
             ELSE [exc |-> "", ret |-> PyList(<<>>), log |-> logged]

\* search(), lines 688-708: another round follows only a non-empty list
continues_unless_stop(ret) == ret # PyEmptyStr
planner_continues(ret) == ret # PyEmptyStr /\ ret.items # <<>>

\* ----------------------------------------------- extract_company_description
extract_company_description(cn, resp) ==
    IF resp.kind = "raise"
    THEN [ret |-> cn \o <<"description_unavailable">>,
          log |-> <<Entry("description_generation_error", "backend_error")>>]
    ELSE [ret |-> IF resp.kind = "none" THEN None ELSE resp.content,
          log |-> <<Entry("description_generation", "")>>]

\* ------------------------------------------------------------------- JSON
\* A JSON text is modelled by the document it encodes: json.dumps builds it,
\* json.loads returns the Python value or raises JSONDecodeError.
JsonDumps(d) == [doc |-> "dict", content |-> d.content, process_log |-> d.process_log]
NotJson == [doc |-> "invalid", content |-> <<>>, process_log |-> <<>>]
JsonOf(kind) == [doc |-> kind, content |-> <<>>, process_log |-> <<>>]

\* the JSON document a content text decodes to, when it is JSON at all
JsonKind(content) ==
    IF Len(content) # 1 THEN "invalid"
    ELSE IF content[1] = "{}" THEN "dict"
    ELSE IF content[1] = "[]" THEN "list"
    ELSE IF content[1] = "123" THEN "number"
    ELSE IF content[1] = "null" THEN "null"
    ELSE "invalid"

\* ------------------------------------------------------------- JSON texts
\* Where the text itself matters a JSON text is a sequence of tokens: the
\* punctuation "{" "}" "[" "]" ":" ",", the double quote "dq", the apostrophe
\* "sq", the number "123" and words.  A JSON value is [k, s, items]: a string
\* with its characters s, or an object / array with its members in order.
JStr(chars) == [k |-> "str", s |-> chars, items |-> <<>>]
JNum == [k |-> "num", s |-> <<"123">>, items |-> <<>>]
Member(key, val) == [key |-> key, val |-> val]
JObj(members) == [k |-> "obj", s |-> <<>>, items |-> members]
JArr(vals) ==
    [k |-> "arr", s |-> <<>>, items |-> [i \in 1..Len(vals) |-> Member(<<>>, vals[i])]]
HasKey(obj, key) == \E i \in 1..Len(obj.items) : obj.items[i].key = key
GetKey(obj, key) ==
    obj.items[CHOOSE i \in 1..Len(obj.items) : obj.items[i].key = key].val
\* d[key] = val on a dict: a known key keeps its place
PutMember(members, key, val) ==
    IF \E i \in 1..Len(members) : members[i].key = key
    THEN [i \in 1..Len(members) |->
             IF members[i].key = key THEN Member(key, val) ELSE members[i]]
    ELSE Append(members, Member(key, val))

\* json.dumps / the transport's serialisation of a dict
RECURSIVE TextOf(_)
RECURSIVE TextOfItems(_, _)
TextOf(v) ==
    IF v.k = "str" THEN <<"dq">> \o v.s \o <<"dq">>
    ELSE IF v.k = "num" THEN v.s
    ELSE IF v.k = "obj" THEN <<"{">> \o TextOfItems(v.items, TRUE) \o <<"}">>
    ELSE <<"[">> \o TextOfItems(v.items, FALSE) \o <<"]">>
TextOfItems(items, keyed) ==
    IF items = <<>> THEN <<>>
    ELSE (IF keyed THEN <<"dq">> \o Head(items).key \o <<"dq", ":">> ELSE <<>>)
         \o TextOf(Head(items).val)
         \o (IF Len(items) > 1 THEN <<",">> ELSE <<>>)
         \o TextOfItems(Tail(items), keyed)

\* json.loads: [ok, val, rest]; ok is FALSE for JSONDecodeError
ParseFail == [ok |-> FALSE, val |-> JStr(<<>>), rest |-> <<>>]
Parsed(v, rest) == [ok |-> TRUE, val |-> v, rest |-> rest]
RECURSIVE ParseValue(_)
RECURSIVE ParseMembers(_, _)
RECURSIVE ParseElements(_, _)
ParseValue(t) ==
    IF t = <<>> THEN ParseFail
    ELSE IF Head(t) = "dq"
    THEN LET j == Find(Tail(t), "dq")
         IN  IF j = 0 THEN ParseFail
             ELSE Parsed(JStr(SubSeq(t, 2, j)), SubSeq(t, j + 2, Len(t)))
    ELSE IF Head(t) = "123" THEN Parsed(JNum, Tail(t))
    ELSE IF Head(t) = "{"
    THEN IF Len(t) >= 2 /\ t[2] = "}" THEN Parsed(JObj(<<>>), SubSeq(t, 3, Len(t)))
         ELSE ParseMembers(Tail(t), <<>>)
    ELSE IF Head(t) = "["
    THEN IF Len(t) >= 2 /\ t[2] = "]" THEN Parsed(JArr(<<>>), SubSeq(t, 3, Len(t)))
         ELSE ParseElements(Tail(t), <<>>)
    ELSE ParseFail
ParseMembers(t, acc) ==
    LET key == ParseValue(t)
    IN  IF ~key.ok \/ key.val.k # "str" \/ key.rest = <<>> \/ Head(key.rest) # ":"
        THEN ParseFail
        ELSE LET v == ParseValue(Tail(key.rest))
                 members == PutMember(acc, key.val.s, v.val)
             IN  IF ~v.ok \/ v.rest = <<>> THEN ParseFail
                 ELSE IF Head(v.rest) = "}" THEN Parsed(JObj(members), Tail(v.rest))
                 ELSE IF Head(v.rest) = "," THEN ParseMembers(Tail(v.rest), members)
                 ELSE ParseFail
ParseElements(t, acc) ==
    LET v == ParseValue(t)
        elements == Append(acc, Member(<<>>, v.val))
    IN  IF ~v.ok \/ v.rest = <<>> THEN ParseFail
        ELSE IF Head(v.rest) = "]"
        THEN Parsed([k |-> "arr", s |-> <<>>, items |-> elements], Tail(v.rest))
        ELSE IF Head(v.rest) = "," THEN ParseElements(Tail(v.rest), elements)
        ELSE ParseFail
json_loads(text) ==
    LET r == ParseValue(text)
    IN  IF r.ok /\ r.rest = <<>> THEN r ELSE ParseFail

\* ------------------------------------------------------ MCPClient.get_images
\* text.replace("'", "\""), line 159
replace_quotes(text) ==
    [i \in 1..Len(text) |-> IF text[i] = "sq" THEN "dq" ELSE text[i]]
KeyProcessLog == <<"process_log">>
ErrorData(msg) == JObj(<<Member(<<"error">>, JStr(<<msg>>))>>)
\* the dict as it is returned under "data"
data_as_decoded(d) == d
\* lines 172-174: data.pop("process_log", [])
data_without_log(d) ==
    JObj(SelectSeq(d.items, LAMBDA m : m.key # KeyProcessLog))
\* tool: [kind: raise | empty | text, content]; the dict returned is
\* [tag, error, data, process_log]
MCPClient_get_images(connected, tool) ==
    IF ~connected
    THEN [tag |-> "error", error |-> "not_connected", data |-> JObj(<<>>),
          process_log |-> JArr(<<>>)]
    ELSE IF tool.kind = "raise"
    THEN [tag |-> "error", error |-> "transport_error", data |-> JObj(<<>>),
          process_log |-> JArr(<<>>)]
    ELSE IF tool.kind = "empty"
    THEN [tag |-> "error", error |-> "IndexError", data |-> JObj(<<>>),
          process_log |-> JArr(<<>>)]
    ELSE LET d == json_loads(replace_quotes(tool.content))
         IN  IF ~d.ok
             THEN [tag |-> "success", error |-> "", data |-> ErrorData("parse_failed"),
                   process_log |-> JArr(<<>>)]
             ELSE IF d.val.k # "obj"
             THEN [tag |-> "success", error |-> "", data |-> ErrorData("bad_format"),
                   process_log |-> JArr(<<>>)]
             ELSE [tag |-> "success", error |-> "", data |-> data_without_log(d.val),
                   process_log |-> IF HasKey(d.val, KeyProcessLog)
                                   THEN GetKey(d.val, KeyProcessLog) ELSE JArr(<<>>)]

\* ---------------------------------------------------------- tagged results
\* {"success": True, "data": ..., "process_log": ...} / {"error": ...};
\* tag "exception" stands for an exception that escapes to the caller.
NoData == [content |-> <<>>, images |-> "", keys |-> {}, search_process_log |-> <<>>]
\* calls: the backend calls made while the result was produced.
Success(data, log) ==
    [tag |-> "success", error |-> "", data |-> data, process_log |-> log, calls |-> 0]
Error(msg) ==
    [tag |-> "error", error |-> msg, data |-> NoData, process_log |-> <<>>, calls |-> 0]
Escapes(msg) ==
    [tag |-> "exception", error |-> msg, data |-> NoData, process_log |-> <<>>,
     calls |-> 0]
NoCall ==
    [tag |-> "", error |-> "", data |-> NoData, process_log |-> <<>>, calls |-> 0]
WithCalls(r, n) == [r EXCEPT !.calls = n]

\* ---------------------------------------------------------- MCPClient.search
\* tool: what session.call_tool("search", ...) does,
\* [kind: raise | empty | text, text]: it raises, returns no content item, or
\* returns a content item holding a text.
ToolRaise == [kind |-> "raise", text |-> NotJson]
ToolEmpty == [kind |-> "empty", text |-> NotJson]
ToolText(t) == [kind |-> "text", text |-> t]

MCPClient_search_body(tool) ==
    IF tool.kind = "raise" THEN Escapes("transport_error")
    ELSE IF tool.kind = "empty" THEN Escapes("IndexError")
    ELSE IF tool.text.doc = "invalid"
    THEN Success([NoData EXCEPT !.content = <<"raw_text">>], <<>>)
    ELSE IF tool.text.doc = "dict"
    THEN Success([NoData EXCEPT !.content = tool.text.content], tool.text.process_log)
    ELSE Success([NoData EXCEPT !.content = <<"str_of_value">>], <<>>)

\* try: ... except Exception as e: return {"error": str(e)}
Unguarded(r) == r
Guarded(r) == IF r.tag = "exception" THEN WithCalls(Error(r.error), r.calls) ELSE r

\* lines 87-89, then the guarded body with its one tool call
MCPClient_search(connected, tool) ==
    IF ~connected THEN Error("not_connected")
    ELSE WithCalls(Guarded(MCPClient_search_body(tool)), 1)

\* ------------------------------- CompanyService._get_detailed_company_info
\* images: the result of MCPClient.get_images (a tagged result).
detailed_body(mcp_result, images) ==
    IF mcp_result.tag = "success"
    THEN LET search_content == mcp_result.data.content
             kind == JsonKind(search_content)
         IN  IF images.tag = "success"
             THEN Success([content |-> IF kind = "dict" THEN <<>> ELSE search_content,
                           images |-> "images_data",
                           keys |-> {"content", "images", "search_process_log",
                                     "images_process_log"},
                           search_process_log |-> mcp_result.process_log], <<>>)
             ELSE IF kind = "invalid"
             THEN Success([content |-> search_content, images |-> "",
                           keys |-> {"content", "search_process_log"},
                           search_process_log |-> mcp_result.process_log], <<>>)
             ELSE IF kind = "dict"
             THEN Success([content |-> <<>>, images |-> "",
                           keys |-> {"search_process_log"},
                           search_process_log |-> mcp_result.process_log], <<>>)
             ELSE Escapes("TypeError")
    ELSE Error(mcp_result.error)

\* get_images is called only after a successful search
get_detailed_company_info(mcp_result, images) ==
    WithCalls(Guarded(detailed_body(mcp_result, images)),
              mcp_result.calls
              + (IF mcp_result.tag = "success" THEN images.calls ELSE 0))

\* what MCPClient.get_images returns on a connected handle
ImagesResults ==
    { WithCalls(Success(NoData, <<>>), 1), WithCalls(Error("images_failed"), 1) }

\* ------------------------------------------- CompanyService.get_company_info
\* A call c carries its inputs and what the backends answer while it runs:
\*   client: self.client is set;  name: "name" | "url" | "not_a_string";
\*   depth: "basic" | "advanced";
\*   first: the extraction of the given URL, found: the search, second: the
\*   extraction of the found URLs (basic path);
\*   connected, tool, images: the MCP handle (advanced path).
Data(keys) == [NoData EXCEPT !.keys = keys]

\* _get_basic_company_info, the body of its try
basic_body(c) ==
    LET url == c.name = "url"
        n1 == IF url THEN 1 ELSE 0
    IN  IF url /\ c.first = "results"
        THEN WithCalls(Success(Data({"url", "title", "content", "images"}), <<>>), 1)
        ELSE IF c.found \in {"raise", "none"}
        THEN WithCalls(Escapes(IF c.found = "raise" THEN "search_failed"
                               ELSE "TypeError"), n1 + 1)
        ELSE IF c.found = "urls" /\ c.second = "results"
        THEN WithCalls(Success(Data({"search_results", "extracted_contents"}), <<>>),
                       n1 + 2)
        ELSE WithCalls(Success(Data({"results"}), <<>>),
                       n1 + 1 + (IF c.found = "urls" THEN 1 ELSE 0))

get_basic_company_info(c) == Guarded(basic_body(c))

\* get_company_info, the body of its try
get_company_info_body(c) ==
    IF c.name = "not_a_string" THEN Escapes("AttributeError")
    ELSE IF c.depth = "basic" THEN get_basic_company_info(c)
    ELSE get_detailed_company_info(MCPClient_search(c.connected, c.tool), c.images)

get_company_info_no_guard(c) == Guarded(get_company_info_body(c))
get_company_info(c) ==
    IF ~c.client THEN Error("api_key_not_set")
    ELSE Guarded(get_company_info_body(c))

\* --------------------------------------------- ReportService.generate_report
\*   client: self.client is set;  sections: "dict" | "none";
\*   reply: the generative backend raises, answers without a choice, answers
\*   with content None, or answers with a text.
generate_report_body(c) ==
    IF c.sections = "none" THEN Escapes("AttributeError")
    ELSE IF c.reply = "raise" THEN WithCalls(Escapes("backend_error"), 1)
    ELSE IF c.reply = "nochoice" THEN WithCalls(Escapes("IndexError"), 1)
    ELSE IF c.reply = "none" THEN WithCalls(Escapes("AttributeError"), 1)
    ELSE WithCalls(Success(Data({"report"}), <<>>), 1)

generate_report(c) ==
    IF ~c.client THEN Error("api_key_not_set")
    ELSE Guarded(generate_report_body(c))

\* -------------------------------------------------- handle_report_generation
\*   name_given: company_name is not empty;  tavily_key, openai_key: what
\*   ApiService.get_api_status reports.  The result is the tuple the handler
\*   returns (tag "error": one of its error tuples) and the number of
\*   services it constructed.
get_company_info_params == 2
handler_call_args == 3

handle_report_generation(c) ==
    IF ~c.name_given
    THEN [result |-> Error("name_missing"), services |-> 0]
    ELSE IF ~c.tavily_key \/ ~c.openai_key
    THEN [result |-> Error("api_key_not_set"), services |-> 0]
    ELSE IF handler_call_args > get_company_info_params
    THEN [result |-> Guarded(Escapes("TypeError")), services |-> 1]
    ELSE LET company == get_company_info(c)
         IN  IF company.tag = "error"
             THEN [result |-> company, services |-> 1]
             ELSE LET report == generate_report(c)
                  IN  [result |-> WithCalls(report, company.calls + report.calls),
                       services |-> 2]

\* ------------------------------------------------------------ search(): state
VARIABLES
    pc,                  \* position of the research invocation
    query,               \* the caller's query, a sequence of words
    iteration,           \* search(): iteration
    new_search_queries,  \* search(): the pending batch (a Python value)
    all_search_queries,  \* search(): query history
    q_idx,               \* position of "for q in new_search_queries"
    search_results,      \* search(): one link list per query of the round
    unique_links,        \* search(): insertion-ordered dict link -> query
    link_idx,            \* position of "for link in unique_links"
    iteration_contexts,  \* search(): blocks of this round
    aggregated_contexts, \* search(): blocks of all rounds
    process_log,         \* search(): the invocation's process log
    result,              \* what search() returns (the dict it serialises)
    surprises,           \* non-nominal per-query / per-link backend answers so far
    rounds,              \* history: times the round body was entered
    trace,               \* history: backend calls of the current round, in order
    failure,             \* history: the first generative failure outside a handler
    caught,              \* history: the exception the final handler converted
    mcp_result,          \* what MCPClient.search returns for this invocation
    company_result       \* what _get_detailed_company_info returns for it

\* ------------------------------------------------------- entry points: state
VARIABLES
    ep_call,             \* the last entry-point call: its inputs and backend answers
    ep_result,           \* what that call returned
    ep_services          \* services the call constructed

entry_vars == <<ep_call, ep_result, ep_services>>

\* ------------------------------------------------- single functions: state
VARIABLES
    fn_call,             \* the last function application: its arguments and answers
    fn_result            \* what it returned

fn_vars == <<fn_call, fn_result>>

\* ---------------------------------------------------- MCPClientManager: state
VARIABLES
    instance,            \* MCPClientManager._instance (0: None, else a handle)
    initialized,         \* MCPClientManager._initialized
    handles,             \* number of MCPClient objects created so far
    connected,           \* handle -> MCPClient.connected
    connecting,          \* handle -> state of its connect_to_server calls
    connects,            \* handle -> number of connect_to_server calls on it
    task,                \* caller -> position of its coroutine
    target,              \* caller -> the handle its pending await works on
    held,                \* caller -> the handle get_instance returned to it
    answer,              \* caller -> what its last search on the handle said
    calls_made,          \* history: number of get_instance calls begun
    overlapped,          \* history: an operation began while another was suspended
    closed,              \* history: number of completed MCPClientManager.close calls
    returned,            \* history: handles returned since the last close
    retired              \* history: handles returned before the last close

\* ------------------------- _get_detailed_company_info: event loops, state
VARIABLES
    loops,               \* number of event loops created so far
    open_loops,          \* the loops that are not closed
    loop,                \* the loop of the running call (0: no call is running)
    svc_pc,              \* position of the running call
    svc_calls,           \* history: number of calls begun
    mcp_client,          \* the handle get_instance gave to the running call
    session_loop,        \* handle -> the loop its session was connected on
    use,                 \* history: the last call made on a session
    svc_result           \* history: what the calls returned, in order

svc_vars == <<loops, open_loops, loop, svc_pc, svc_calls, mcp_client, session_loop,
              use, svc_result>>
mgr_vars == <<instance, initialized, handles, connected, connecting, connects, task,
              target, held, answer, calls_made, overlapped, closed, returned,
              retired, svc_vars>>

search_vars == <<pc, query, iteration, new_search_queries, all_search_queries,
                 q_idx, search_results, unique_links, link_idx,
                 iteration_contexts, aggregated_contexts, process_log, result,
                 surprises, rounds, trace, failure, caught, mcp_result,
                 company_result>>
chain_vars == <<mcp_result, company_result>>

\* -------------------------------------------------------- backend outcomes
Raise == [kind |-> "raise", content |-> <<>>]
Absent == [kind |-> "none", content |-> <<>>]
Text(c) == [kind |-> "text", content |-> c]

UserQueries == {<<"Acme">>, <<"Acme", "Corp">>}

QueryCeo == <<"Acme", "CEO">>
QueryRevenue == <<"Acme", "revenue">>
QueryPresident == <<"Acme", "shacho">>
QueryCapital == <<"shihonkin", "ranking">>

\* what the generative backend may answer to generate_query's prompt
GenerateQueryOutcomes ==
    { Raise, Absent,
      Text(<<Prose, Prose>>),
      Text(<<Prose, LB, Lit(QueryCeo), Comma, Ws, Lit(QueryRevenue), RB, Prose>>),
      Text(<<LB, Lit(QueryCeo), RB>>),
      Text(<<LB, RB>>),
      Text(<<LB, Lit(QueryCeo), Lit(QueryRevenue), RB>>),
      Text(<<RB, Prose, LB>>) }

\* what the search backend may answer to one web_search
SearchNominal == [kind |-> "results", items |-> <<Item(UrlOfficial), Item(UrlNews)>>]
WebSearchOutcomes ==
    { SearchNominal,
      [kind |-> "raise", items |-> <<>>],
      [kind |-> "nokey", items |-> <<>>],
      [kind |-> "results", items |-> <<Item(UrlWiki), Item(UrlOfficial)>>],
      [kind |-> "results", items |-> <<Item(UrlNews), ItemNoUrl, Item(UrlOfficial)>>],
      [kind |-> "results", items |-> <<Item(UrlPdf)>>] }

\* what the backends may answer while one link is processed
PageNominal == [kind |-> "result", content |-> <<"page", "text">>, structured |-> <<>>]
PdfNominal ==
    [kind |-> "pdf",
     content |-> <<"report", "para", "daihyo_torishimariyaku", "Yamada", "para", "end">>,
     structured |-> <<>>]
FetchNominal(link) == IF is_pdf(link) THEN PdfNominal ELSE PageNominal
FetchOutcomes(link) ==
    IF is_pdf(link)
    THEN { PdfNominal,
           [kind |-> "status", content |-> <<>>, structured |-> <<>>],
           [kind |-> "raise", content |-> <<>>, structured |-> <<>>] }
    ELSE { PageNominal,
           [kind |-> "raise", content |-> <<>>, structured |-> <<>>],
           [kind |-> "noresults", content |-> <<>>, structured |-> <<>>],
           [kind |-> "result", content |-> <<"page">>,
            structured |-> <<"yakuin", "Yamada">>] }
UsefulNominal == Text(<<"hai">>)
UsefulOutcomes ==
    { UsefulNominal, Raise, Absent, Text(<<"iie">>), Text(<<"other", "hai", "iie">>) }
ExtractNominal(link) == Text(<<"facts_from">> \o link.host)
ExtractOutcomes(link) ==
    { ExtractNominal(link), Raise, Absent, Text(<<"ws">>) }

LinkOutcomes(link) ==
    [fetch : FetchOutcomes(link), useful : UsefulOutcomes,
     extract : ExtractOutcomes(link)]
\* the number of non-nominal answers of an outcome
Cost(link, out) ==
    (IF out.fetch = FetchNominal(link) THEN 0 ELSE 1)
    + (IF out.useful = UsefulNominal THEN 0 ELSE 1)
    + (IF out.extract = ExtractNominal(link) THEN 0 ELSE 1)
\* a call that is not made has no answer: it is fixed to the nominal one
Canonical(link, out, calls) ==
    /\ (~Contains(calls, "if_useful") => out.useful = UsefulNominal)
    /\ (~Contains(calls, "extract") => out.extract = ExtractNominal(link))

\* what the generative backend may answer to the continuation planner
PlannerOutcomes ==
    { Raise, Absent, Text(<<>>), Text(<<Ws>>), Text(<<Lit(<<>>)>>),
      Text(<<LB, RB>>),
      Text(<<LB, Lit(QueryPresident), RB>>),
      Text(<<Ws, LB, Lit(QueryPresident), Comma, Lit(QueryCapital), RB>>),
      Text(<<Prose, LB, Lit(QueryPresident), RB>>) }

\* what the generative backend may answer to the description prompt
DescriptionOutcomes ==
    { Raise, Absent, Text(<<>>), Text(<<"Acme", "is", "a", "company">>) }

\* ---------------------------------------------------------- search(): steps
NoResult == [content |-> <<"<unset>">>, process_log |-> <<>>]
NoFailure == [site |-> "", blocks |-> <<>>, remaining |-> 0]

\* '\n\n'.join(blocks); the caller checks that no element is None
RECURSIVE Join(_)
Join(blocks) ==
    IF blocks = <<>> THEN <<>>
    ELSE IF Len(blocks) = 1 THEN blocks[1]
    ELSE blocks[1] \o <<"para">> \o Join(Tail(blocks))

\* lines 724-729: the final handler of search()
CatchAll(e) ==
    [content |-> <<"search_error:", e>>, process_log |-> <<Entry("error", e)>>]

InitSearch ==
    /\ pc = "init"
    /\ query \in UserQueries
    /\ iteration = 0
    /\ new_search_queries = PyList(<<>>)
    /\ all_search_queries = <<>>
    /\ q_idx = 1
    /\ search_results = <<>>
    /\ unique_links = <<>>
    /\ link_idx = 1
    /\ iteration_contexts = <<>>
    /\ aggregated_contexts = <<>>
    /\ process_log = <<>>
    /\ result = NoResult
    /\ surprises = 0
    /\ rounds = 0
    /\ trace = <<>>
    /\ failure = NoFailure
    /\ caught = ""
    /\ mcp_result = NoCall
    /\ company_result = NoCall

\* lines 576-618: generate the first batch
SearchStart ==
    /\ pc = "init"
    /\ \E resp \in GenerateQueryOutcomes :
         LET gq == generate_query(query, resp)
             batch == initial_queries(query, gq)
         IN  /\ new_search_queries' = PyList(batch)
             /\ all_search_queries' = batch
             /\ process_log' = process_log \o gq.log \o <<Entry("search_start", "")>>
    /\ pc' = "loop"
    /\ UNCHANGED <<query, iteration, q_idx, search_results, unique_links, link_idx,
                   iteration_contexts, aggregated_contexts, result, surprises,
                   rounds, trace, failure, caught, chain_vars,
                   entry_vars, mgr_vars, fn_vars>>

\* line 620: while iteration < iteration_limit
loop_condition_inclusive == iteration <= iteration_limit
loop_condition == iteration < iteration_limit

\* lines 620-632: the loop test and the head of the round body
LoopHead ==
    /\ pc = "loop"
    /\ IF loop_condition
       THEN /\ pc' = "searching"
            /\ rounds' = rounds + 1
            /\ iteration_contexts' = <<>>
            /\ search_results' = <<>>
            /\ q_idx' = 1
            /\ trace' = <<>>
            /\ process_log' = Append(process_log, Entry("iteration_start", ""))
       ELSE /\ pc' = "finish"
            /\ UNCHANGED <<rounds, iteration_contexts, search_results, q_idx,
                           trace, process_log>>
    /\ UNCHANGED <<query, iteration, new_search_queries, all_search_queries,
                   unique_links, link_idx, aggregated_contexts, result, surprises,
                   failure, caught, chain_vars,
                   entry_vars, mgr_vars, fn_vars>>

\* lines 633-635: one web_search of the round
WebSearchStep ==
    /\ pc = "searching"
    /\ q_idx <= Len(new_search_queries.items)
    /\ \E resp \in WebSearchOutcomes :
         LET ws == web_search(new_search_queries.items[q_idx], resp)
             cost == IF resp = SearchNominal THEN 0 ELSE 1
         IN  /\ surprises + cost <= MaxSurprises
             /\ surprises' = surprises + cost
             /\ search_results' = Append(search_results, ws.links)
             /\ process_log' = process_log \o ws.log
    /\ q_idx' = q_idx + 1
    /\ trace' = Append(trace, "web_search")
    /\ UNCHANGED <<pc, query, iteration, new_search_queries, all_search_queries,
                   unique_links, link_idx, iteration_contexts, aggregated_contexts,
                   result, rounds, failure, caught, chain_vars,
                   entry_vars, mgr_vars, fn_vars>>

\* every link appended, seen before or not
AddLinksUnchecked(ul, links, q) ==
    ul \o [i \in 1..Len(links) |-> [link |-> links[i], query |-> q]]
\* lines 637-643: the insertion-ordered dict of unique links
RECURSIVE AddLinks(_, _, _)
AddLinks(ul, links, q) ==
    IF links = <<>> THEN ul
    ELSE AddLinks(IF \E i \in 1..Len(ul) : ul[i].link = Head(links)
                  THEN ul
                  ELSE Append(ul, [link |-> Head(links), query |-> q]),
                  Tail(links), q)
RECURSIVE CollectUnique(_, _, _)
CollectUnique(ul, results, queries) ==
    IF results = <<>> THEN ul
    ELSE CollectUnique(AddLinks(ul, Head(results), Head(queries)),
                       Tail(results), Tail(queries))

\* lines 633-635: the for loop over the queries of the round has ended
some_query_searched == q_idx > 1
all_queries_searched == q_idx > Len(new_search_queries.items)

\* lines 637-655: all searches of the round are done
AggregateLinks ==
    /\ pc = "searching"
    /\ all_queries_searched
    /\ unique_links' = CollectUnique(<<>>, search_results, new_search_queries.items)
    /\ process_log' = Append(process_log, Entry("link_aggregation", ""))
    /\ link_idx' = 1
    /\ pc' = "extracting"
    /\ UNCHANGED <<query, iteration, new_search_queries, all_search_queries, q_idx,
                   search_results, iteration_contexts, aggregated_contexts, result,
                   surprises, rounds, trace, failure, caught, chain_vars,
                   entry_vars, mgr_vars, fn_vars>>

\* lines 656-659: process_link for one link of the round
ProcessLinkStep ==
    /\ pc = "extracting"
    /\ link_idx <= Len(unique_links)
    /\ \E out \in LinkOutcomes(unique_links[link_idx].link) :
         LET link == unique_links[link_idx].link
             r == process_link(link, out)
         IN  /\ surprises + Cost(link, out) <= MaxSurprises
             /\ Canonical(link, out, r.calls)
             /\ surprises' = surprises + Cost(link, out)
             /\ trace' = trace \o r.calls
             /\ IF r.exc # ""
                THEN /\ pc' = "done"
                     /\ result' = CatchAll(r.exc)
                     /\ caught' = r.exc
                     /\ failure' = [site |-> r.calls[Len(r.calls)],
                                    blocks |-> aggregated_contexts \o iteration_contexts,
                                    remaining |-> Len(unique_links) - link_idx]
                     /\ UNCHANGED <<iteration_contexts, link_idx>>
                ELSE /\ iteration_contexts' =
                            IF Truthy(r.ret) THEN Append(iteration_contexts, r.ret)
                            ELSE iteration_contexts
                     /\ link_idx' = link_idx + 1
                     /\ UNCHANGED <<pc, result, failure, caught>>
             /\ process_log' = process_log \o r.log
    /\ UNCHANGED <<query, iteration, new_search_queries, all_search_queries, q_idx,
                   search_results, unique_links, aggregated_contexts, rounds,
                   chain_vars,
                   entry_vars, mgr_vars, fn_vars>>

\* a round without blocks ends the loop
CollectContextsOrStop ==
    /\ pc = "extracting"
    /\ link_idx > Len(unique_links)
    /\ aggregated_contexts' = aggregated_contexts \o iteration_contexts
    /\ process_log' = Append(process_log,
           Entry("context_collection",
                 IF iteration_contexts = <<>> THEN "no_useful_context" ELSE ""))
    /\ pc' = IF iteration_contexts = <<>> THEN "finish" ELSE "deciding"
    /\ UNCHANGED <<query, iteration, new_search_queries, all_search_queries, q_idx,
                   search_results, unique_links, link_idx, iteration_contexts,
                   result, surprises, rounds, trace, failure, caught, chain_vars,
                   entry_vars, mgr_vars, fn_vars>>

\* lines 661-684: fold the round's blocks into the accumulated ones
CollectContexts ==
    /\ pc = "extracting"
    /\ link_idx > Len(unique_links)
    /\ aggregated_contexts' = aggregated_contexts \o iteration_contexts
    /\ process_log' = Append(process_log,
           Entry("context_collection",
                 IF iteration_contexts = <<>> THEN "no_useful_context" ELSE ""))
    /\ pc' = "deciding"
    /\ UNCHANGED <<query, iteration, new_search_queries, all_search_queries, q_idx,
                   search_results, unique_links, link_idx, iteration_contexts,
                   result, surprises, rounds, trace, failure, caught, chain_vars,
                   entry_vars, mgr_vars, fn_vars>>

\* lines 686-710: ask the continuation planner, then break or count the round
Decide ==
    /\ pc = "deciding"
    /\ \E resp \in PlannerOutcomes :
         LET d == get_new_search_queries(resp)
         IN  /\ trace' = Append(trace, "planner")
             /\ IF d.exc # ""
                THEN /\ pc' = "done"
                     /\ result' = CatchAll(d.exc)
                     /\ caught' = d.exc
                     /\ failure' = [site |-> "planner",
                                    blocks |-> aggregated_contexts,
                                    remaining |-> 0]
                     /\ UNCHANGED <<new_search_queries, all_search_queries,
                                    iteration, process_log>>
                ELSE /\ new_search_queries' = d.ret
                     /\ UNCHANGED <<result, failure, caught>>
                     /\ IF planner_continues(d.ret)
                        THEN /\ all_search_queries' = all_search_queries \o d.ret.items
                             /\ process_log' = process_log \o d.log
                             /\ iteration' = iteration + 1
                             /\ pc' = "loop"
                        ELSE /\ process_log' = process_log \o d.log
                                    \o <<Entry("search_end", "")>>
                             /\ pc' = "finish"
                             /\ UNCHANGED <<all_search_queries, iteration>>
    /\ UNCHANGED <<query, q_idx, search_results, unique_links, link_idx,
                   iteration_contexts, aggregated_contexts, surprises, rounds,
                   chain_vars,
                   entry_vars, mgr_vars, fn_vars>>

\* lines 712-723: the fallback description and the returned dict
Finish ==
    /\ pc = "finish"
    /\ IF aggregated_contexts = <<>>
       THEN \E resp \in DescriptionOutcomes :
              LET d == extract_company_description(company_name_of(query), resp)
              IN  /\ aggregated_contexts' = <<d.ret>>
                  /\ process_log' = process_log \o d.log
                  /\ result' = IF d.ret = None
                               THEN CatchAll("TypeError")
                               ELSE [content |-> Join(<<d.ret>>),
                                     process_log |-> process_log \o d.log]
                  /\ caught' = IF d.ret = None THEN "TypeError" ELSE ""
       ELSE /\ result' = [content |-> Join(aggregated_contexts),
                          process_log |-> process_log]
            /\ UNCHANGED <<aggregated_contexts, process_log, caught>>
    /\ pc' = "done"
    /\ UNCHANGED <<query, iteration, new_search_queries, all_search_queries, q_idx,
                   search_results, unique_links, link_idx, iteration_contexts,
                   surprises, rounds, trace, failure, chain_vars,
                   entry_vars, mgr_vars, fn_vars>>

\* MCPClient.search, lines 91-136, on the text the search tool returned
\* (a failing transport is an outcome of the entry-point specification)
ClientSearch ==
    /\ pc = "done"
    /\ mcp_result' = MCPClient_search(TRUE, ToolText(JsonDumps(result)))
    /\ pc' = "client_done"
    /\ UNCHANGED <<query, iteration, new_search_queries, all_search_queries, q_idx,
                   search_results, unique_links, link_idx, iteration_contexts,
                   aggregated_contexts, process_log, result, surprises, rounds,
                   trace, failure, caught, company_result, entry_vars,
                   mgr_vars, fn_vars>>

\* CompanyService._get_detailed_company_info, lines 201-262
DetailedInfo ==
    /\ pc = "client_done"
    /\ \E images \in ImagesResults :
         company_result' = get_detailed_company_info(mcp_result, images)
    /\ pc' = "service_done"
    /\ UNCHANGED <<query, iteration, new_search_queries, all_search_queries, q_idx,
                   search_results, unique_links, link_idx, iteration_contexts,
                   aggregated_contexts, process_log, result, surprises, rounds,
                   trace, failure, caught, mcp_result, entry_vars, mgr_vars, fn_vars>>

NextSearch ==
    \/ SearchStart
    \/ LoopHead
    \/ WebSearchStep
    \/ AggregateLinks
    \/ ProcessLinkStep
    \/ CollectContexts
    \/ Decide
    \/ Finish
    \/ ClientSearch
    \/ DetailedInfo

\* ------------------------------------------------------ entry points: steps
NoEntryCall ==
    [op |-> "", client |-> TRUE, name |-> "name", depth |-> "basic",
     first |-> "results", found |-> "urls", second |-> "results",
     connected |-> TRUE, tool |-> ToolEmpty, images |-> NoCall,
     sections |-> "dict", reply |-> "text",
     name_given |-> TRUE, tavily_key |-> TRUE, openai_key |-> TRUE]

InitEntry ==
    /\ ep_call = NoEntryCall
    /\ ep_result = NoCall
    /\ ep_services = 0

\* what session.call_tool("search", ...) may do
SampleResult == [content |-> <<"facts">>, process_log |-> <<Entry("search_start", "")>>]
ToolOutcomes ==
    { ToolRaise, ToolEmpty, ToolText(NotJson), ToolText(JsonOf("list")),
      ToolText(JsonDumps(SampleResult)),
      ToolText(JsonDumps(CatchAll("backend_error"))) }

BasicCalls ==
    { [NoEntryCall EXCEPT !.op = "get_company_info", !.depth = "basic",
                          !.client = cl, !.name = nm, !.first = e1, !.found = f,
                          !.second = e2] :
        cl \in BOOLEAN, nm \in {"name", "url", "not_a_string"},
        e1 \in {"results", "empty", "raise"},
        f \in {"raise", "none", "no_urls", "urls"},
        e2 \in {"results", "empty", "raise"} }
AdvancedCalls ==
    { [NoEntryCall EXCEPT !.op = "get_company_info", !.depth = "advanced",
                          !.client = cl, !.name = nm, !.connected = cn, !.tool = t,
                          !.images = im] :
        cl \in BOOLEAN, nm \in {"name", "url", "not_a_string"},
        cn \in BOOLEAN, t \in ToolOutcomes, im \in ImagesResults }
ReportCalls ==
    { [NoEntryCall EXCEPT !.op = "generate_report", !.client = cl, !.sections = sc,
                          !.reply = r] :
        cl \in BOOLEAN, sc \in {"dict", "none"},
        r \in {"raise", "nochoice", "none", "text"} }
ClientCalls ==
    { [NoEntryCall EXCEPT !.op = "MCPClient_search", !.connected = cn, !.tool = t] :
        cn \in BOOLEAN, t \in ToolOutcomes }
HandlerCalls ==
    { [NoEntryCall EXCEPT !.op = "handle_report_generation", !.name_given = ng,
                          !.tavily_key = tk, !.openai_key = ok, !.client = tk,
                          !.depth = d] :
        ng \in BOOLEAN, tk \in BOOLEAN, ok \in BOOLEAN,
        d \in {"basic", "advanced"} }

CallGetCompanyInfo ==
    /\ \E c \in BasicCalls \cup AdvancedCalls :
         /\ ep_call' = c
         /\ ep_result' = get_company_info(c)
    /\ ep_services' = 0
    /\ UNCHANGED <<search_vars, mgr_vars, fn_vars>>

CallGenerateReport ==
    /\ \E c \in ReportCalls :
         /\ ep_call' = c
         /\ ep_result' = generate_report(c)
    /\ ep_services' = 0
    /\ UNCHANGED <<search_vars, mgr_vars, fn_vars>>

CallClientSearch ==
    /\ \E c \in ClientCalls :
         /\ ep_call' = c
         /\ ep_result' = MCPClient_search(c.connected, c.tool)
    /\ ep_services' = 0
    /\ UNCHANGED <<search_vars, mgr_vars, fn_vars>>

CallHandleReportGeneration ==
    /\ \E c \in HandlerCalls :
         LET h == handle_report_generation(c)
         IN  /\ ep_call' = c
             /\ ep_result' = h.result
             /\ ep_services' = h.services
    /\ UNCHANGED <<search_vars, mgr_vars, fn_vars>>

NextEntry ==
    \/ CallGetCompanyInfo
    \/ CallGenerateReport
    \/ CallClientSearch
    \/ CallHandleReportGeneration

\* ---------------------------------------------- MCPClientManager: steps
\* Coroutines run on one event loop: a step is the code between two awaits.
Callers == 1..MaxCallers
Handles == 1..MaxHandles

InitMgr ==
    /\ instance = 0
    /\ initialized = FALSE
    /\ handles = 0
    /\ connected = [h \in Handles |-> FALSE]
    /\ connecting = [h \in Handles |-> "never"]
    /\ connects = [h \in Handles |-> 0]
    /\ task = [c \in Callers |-> "idle"]
    /\ target = [c \in Callers |-> 0]
    /\ held = [c \in Callers |-> 0]
    /\ answer = [c \in Callers |-> "none"]
    /\ calls_made = 0
    /\ overlapped = FALSE
    /\ closed = 0
    /\ returned = {}
    /\ retired = {}

Suspended(c) == \E d \in Callers \ {c} : task[d] \in {"connecting", "closing"}

\* line 217: if cls._instance is None
create_always(i) == TRUE
retry_unconnected(i) == i = 0 \/ ~connected[i]
needs_instance(i) == i = 0

\* get_instance, lines 217-226, up to its await or its return
GetInstanceBegin(c) ==
    /\ task[c] = "idle"
    /\ calls_made < MaxCalls
    /\ calls_made' = calls_made + 1
    /\ overlapped' = (overlapped \/ Suspended(c))
    /\ answer' = [answer EXCEPT ![c] = "none"]
    /\ IF needs_instance(instance)
       THEN /\ handles < MaxHandles
            /\ LET h == handles + 1
               IN  /\ handles' = h
                   /\ instance' = h
                   /\ IF ~initialized
                      THEN \E script_exists \in BOOLEAN :
                             /\ connects' = [connects EXCEPT ![h] = @ + 1]
                             /\ IF script_exists
                                THEN /\ task' = [task EXCEPT ![c] = "connecting"]
                                     /\ target' = [target EXCEPT ![c] = h]
                                     /\ connecting' = [connecting EXCEPT ![h] = "pending"]
                                     /\ UNCHANGED <<initialized, held, returned>>
                                ELSE /\ connecting' = [connecting EXCEPT ![h] = "failed"]
                                     /\ initialized' = TRUE
                                     /\ held' = [held EXCEPT ![c] = h]
                                     /\ returned' = returned \cup {h}
                                     /\ task' = [task EXCEPT ![c] = "holding"]
                                     /\ UNCHANGED target
                      ELSE /\ held' = [held EXCEPT ![c] = h]
                           /\ returned' = returned \cup {h}
                           /\ task' = [task EXCEPT ![c] = "holding"]
                           /\ UNCHANGED <<initialized, connects, connecting, target>>
       ELSE /\ held' = [held EXCEPT ![c] = instance]
            /\ returned' = returned \cup {instance}
            /\ task' = [task EXCEPT ![c] = "holding"]
            /\ UNCHANGED <<instance, initialized, handles, connects, connecting,
                           target>>
    /\ UNCHANGED <<connected, closed, retired, search_vars, entry_vars, fn_vars,
                   svc_vars>>

\* connect_to_server returns (lines 57-74); get_instance, lines 224-226
ConnectDone(c) ==
    /\ task[c] = "connecting"
    /\ \E ok \in BOOLEAN :
         /\ connected' = [connected EXCEPT ![target[c]] = ok]
         /\ connecting' = [connecting EXCEPT ![target[c]] =
                               IF ok THEN "ok" ELSE "failed"]
    /\ initialized' = TRUE
    /\ held' = [held EXCEPT ![c] = instance]
    /\ returned' = IF instance = 0 THEN returned ELSE returned \cup {instance}
    /\ task' = [task EXCEPT ![c] = "holding"]
    /\ target' = [target EXCEPT ![c] = 0]
    /\ UNCHANGED <<instance, handles, connects, answer, calls_made, overlapped,
                   closed, retired, search_vars, entry_vars, fn_vars,
                   svc_vars>>

\* MCPClient.search on the handle the caller was given, lines 87-89
HandleSearch(c) ==
    /\ task[c] = "holding"
    /\ answer' = [answer EXCEPT ![c] =
                     IF held[c] = 0 THEN "AttributeError"
                     ELSE IF ~connected[held[c]] THEN "not_connected"
                     ELSE IF connecting[held[c]] = "closed" THEN "transport_error"
                     ELSE "searched"]
    /\ task' = [task EXCEPT ![c] = "idle"]
    /\ UNCHANGED <<instance, initialized, handles, connected, connecting, connects,
                   target, held, calls_made, overlapped, closed, returned, retired,
                   search_vars, entry_vars, fn_vars,
                   svc_vars>>

\* MCPClientManager.close, lines 231-234, up to its await or its return
CloseBegin(c) ==
    /\ task[c] = "idle"
    /\ instance # 0
    /\ overlapped' = (overlapped \/ Suspended(c))
    /\ IF connected[instance]
       THEN /\ task' = [task EXCEPT ![c] = "closing"]
            /\ target' = [target EXCEPT ![c] = instance]
            /\ UNCHANGED <<instance, initialized, closed, returned, retired>>
       ELSE /\ instance' = 0
            /\ initialized' = FALSE
            /\ closed' = closed + 1
            /\ retired' = retired \cup returned \cup {instance}
            /\ returned' = {}
            /\ UNCHANGED <<task, target>>
    /\ UNCHANGED <<handles, connected, connecting, connects, held, answer,
                   calls_made, search_vars, entry_vars, fn_vars,
                   svc_vars>>

\* exit_stack.aclose() returns (line 198); close, lines 233-234
CloseDone(c) ==
    /\ task[c] = "closing"
    /\ connecting' = [connecting EXCEPT ![target[c]] = "closed"]
    /\ instance' = 0
    /\ initialized' = FALSE
    /\ closed' = closed + 1
    /\ retired' = retired \cup returned \cup {target[c]}
    /\ returned' = {}
    /\ task' = [task EXCEPT ![c] = "idle"]
    /\ target' = [target EXCEPT ![c] = 0]
    /\ UNCHANGED <<handles, connected, connects, held, answer, calls_made,
                   overlapped, search_vars, entry_vars, fn_vars,
                   svc_vars>>

NextMgr ==
    \/ \E c \in Callers : GetInstanceBegin(c)
    \/ \E c \in Callers : ConnectDone(c)
    \/ \E c \in Callers : HandleSearch(c)
    \/ \E c \in Callers : CloseBegin(c)
    \/ \E c \in Callers : CloseDone(c)

\* ----------------------------- _get_detailed_company_info: steps
\* Calls follow one another in one process; each runs the coroutines to
\* completion on an event loop of its own.
NoUse == [handle |-> 0, on_loop |-> 0, session_loop |-> 0, session_loop_open |-> FALSE]
InitSvc ==
    /\ loops = 0
    /\ open_loops = {}
    /\ loop = 0
    /\ svc_pc = "idle"
    /\ svc_calls = 0
    /\ mcp_client = 0
    /\ session_loop = [h \in Handles |-> 0]
    /\ use = NoUse
    /\ svc_result = <<>>

\* lines 190-191: loop = asyncio.new_event_loop()
SvcBegin ==
    /\ svc_pc = "idle"
    /\ svc_calls < MaxCalls
    /\ svc_calls' = svc_calls + 1
    /\ loops' = loops + 1
    /\ loop' = loops + 1
    /\ open_loops' = open_loops \cup {loops + 1}
    /\ svc_pc' = "loop_set"
    /\ use' = NoUse
    /\ UNCHANGED <<svc_result, mcp_client, session_loop, instance, initialized, handles,
                   connected, connecting, connects, task, target, held, answer,
                   calls_made, overlapped, closed, returned, retired,
                   search_vars, entry_vars, fn_vars>>

\* line 195: loop.run_until_complete(MCPClientManager.get_instance())
SvcGetInstance ==
    /\ svc_pc = "loop_set"
    /\ IF needs_instance(instance)
       THEN /\ handles < MaxHandles
            /\ LET h == handles + 1
               IN  /\ handles' = h
                   /\ instance' = h
                   /\ mcp_client' = h
                   /\ IF ~initialized
                      THEN \E ok \in BOOLEAN :
                             /\ connects' = [connects EXCEPT ![h] = @ + 1]
                             /\ connected' = [connected EXCEPT ![h] = ok]
                             /\ connecting' = [connecting EXCEPT ![h] =
                                                   IF ok THEN "ok" ELSE "failed"]
                             /\ session_loop' = [session_loop EXCEPT ![h] =
                                                     IF ok THEN loop ELSE 0]
                             /\ initialized' = TRUE
                      ELSE UNCHANGED <<connects, connected, connecting, session_loop,
                                       initialized>>
       ELSE /\ mcp_client' = instance
            /\ UNCHANGED <<instance, initialized, handles, connected, connecting,
                           connects, session_loop>>
    /\ svc_pc' = "have_client"
    /\ UNCHANGED <<loops, open_loops, loop, svc_calls, use, svc_result, task, target,
                   held, answer, calls_made, overlapped, closed, returned, retired,
                   search_vars, entry_vars, fn_vars>>

\* a call made on the session of handle h by a coroutine of the running loop
SessionCall(h) ==
    [handle |-> h, on_loop |-> loop, session_loop |-> session_loop[h],
     session_loop_open |-> session_loop[h] \in open_loops]

\* line 199: loop.run_until_complete(mcp_client.search(company_name))
SvcSearch ==
    /\ svc_pc = "have_client"
    /\ IF ~connected[mcp_client]
       THEN /\ svc_result' = Append(svc_result, "not_connected")
            /\ svc_pc' = "returning"
            /\ UNCHANGED use
       ELSE /\ use' = SessionCall(mcp_client)
            /\ \E answered \in BOOLEAN :
                 IF answered
                 THEN svc_pc' = "searched" /\ UNCHANGED svc_result
                 ELSE /\ svc_pc' = "returning"
                      /\ svc_result' = Append(svc_result, "search_failed")
    /\ UNCHANGED <<loops, open_loops, loop, svc_calls, mcp_client, session_loop,
                   instance, initialized, handles, connected, connecting, connects,
                   task, target, held, answer, calls_made, overlapped, closed,
                   returned, retired, search_vars, entry_vars, fn_vars>>

\* line 208: loop.run_until_complete(mcp_client.get_images(company_name))
SvcGetImages ==
    /\ svc_pc = "searched"
    /\ use' = SessionCall(mcp_client)
    /\ \E images_ok \in BOOLEAN :
         svc_result' = Append(svc_result,
                              IF images_ok THEN "success" ELSE "success_search_only")
    /\ svc_pc' = "returning"
    /\ UNCHANGED <<loops, open_loops, loop, svc_calls, mcp_client, session_loop,
                   instance, initialized, handles, connected, connecting, connects,
                   task, target, held, answer, calls_made, overlapped, closed,
                   returned, retired, search_vars, entry_vars, fn_vars>>

\* lines 256-258: finally: loop.close()
SvcEnd ==
    /\ svc_pc = "returning"
    /\ open_loops' = open_loops \ {loop}
    /\ loop' = 0
    /\ mcp_client' = 0
    /\ svc_pc' = "idle"
    /\ UNCHANGED <<loops, svc_calls, session_loop, use, svc_result, instance,
                   initialized, handles, connected, connecting, connects, task,
                   target, held, answer, calls_made, overlapped, closed, returned,
                   retired, search_vars, entry_vars, fn_vars>>

NextSvc ==
    \/ SvcBegin
    \/ SvcGetInstance
    \/ SvcSearch
    \/ SvcGetImages
    \/ SvcEnd

\* ------------------------------------------------- single functions: steps
NoFnCall == [op |-> ""]

InitFn ==
    /\ fn_call = NoFnCall
    /\ fn_result = NoFnCall

\* generate_query and the decoding of its result in search(), lines 586-608.
\* A listed answer is prose, a list display of the items, prose; the prose
\* before holds no '[' and the prose after no ']'.
ProseBefore == { <<>>, <<Prose, Ws>>, <<Prose, RB, Ws>> }
ProseAfter == { <<>>, <<Ws, Prose>>, <<Ws, LB, Prose>> }
ListedItems == { <<>>, <<QueryCeo>>, <<QueryRevenue, QueryCeo>> }
UnlistedAnswers ==
    { Raise, Absent, Text(<<>>), Text(<<Prose>>), Text(<<Lit(QueryCeo)>>),
      Text(<<RB, Prose, LB>>), Text(<<LB, Prose, RB>>), Text(<<LB, Lit(QueryCeo)>>),
      Text(<<LB, Lit(QueryCeo), Comma, Comma, Lit(QueryRevenue), RB>>) }

ApplyGenerateQuery ==
    /\ \E q \in UserQueries :
         \E c \in [listed : {TRUE}, pre : ProseBefore, items : ListedItems,
                    post : ProseAfter, resp : {Raise}]
                   \cup [listed : {FALSE}, pre : {<<>>}, items : {<<>>},
                         post : {<<>>}, resp : UnlistedAnswers] :
           LET resp == IF c.listed THEN Text(c.pre \o PyRepr(c.items) \o c.post)
                       ELSE c.resp
               gq == generate_query(q, resp)
           IN  /\ fn_call' = [op |-> "generate_query", query |-> q,
                               listed |-> c.listed, pre |-> c.pre, items |-> c.items,
                               post |-> c.post, resp |-> resp]
               /\ fn_result' = [op |-> "generate_query", ret |-> gq.ret,
                                 log |-> gq.log, batch |-> initial_queries(q, gq)]
    /\ UNCHANGED <<search_vars, entry_vars, mgr_vars>>

\* get_new_search_queries and the branch of search() on its result, lines
\* 687-710.  Each answer comes with the class it belongs to.
QueryHistory == <<"Acme", "history">>
PlannerCases ==
    { [class |-> "raise", resp |-> Raise],
      [class |-> "absent", resp |-> Absent],
      [class |-> "empty", resp |-> Text(<<>>)],
      [class |-> "blank", resp |-> Text(<<Ws>>)],
      [class |-> "decode_failure", resp |-> Text(<<Prose>>)],
      [class |-> "decode_failure", resp |-> Text(<<LB, Lit(QueryPresident)>>)],
      [class |-> "decode_failure",
       resp |-> Text(<<LB, Lit(QueryPresident), Comma, Comma, Lit(QueryCapital), RB>>)],
      [class |-> "decode_failure", resp |-> Text(<<Prose, LB, Lit(QueryPresident), RB>>)],
      [class |-> "non_list", resp |-> Text(<<Lit(QueryPresident)>>)],
      [class |-> "non_list", resp |-> Text(<<Lit(<<>>)>>)],
      [class |-> "empty_list", resp |-> Text(<<LB, RB>>)],
      [class |-> "empty_list", resp |-> Text(<<Ws, LB, Ws, RB, Ws>>)],
      [class |-> "list", resp |-> Text(PyRepr(<<QueryPresident>>))],
      [class |-> "list", resp |-> Text(<<Ws>> \o PyRepr(<<QueryPresident, QueryCapital>>))],
      [class |-> "list",
       resp |-> Text(PyRepr(<<QueryPresident, QueryCapital, QueryCeo, QueryRevenue>>))],
      [class |-> "list",
       resp |-> Text(PyRepr(<<QueryPresident, QueryCapital, QueryCeo, QueryRevenue,
                              QueryHistory>>))] }

ApplyPlanner ==
    /\ \E c \in PlannerCases :
         LET d == get_new_search_queries(c.resp)
         IN  /\ fn_call' = [op |-> "get_new_search_queries", class |-> c.class,
                             resp |-> c.resp]
             /\ fn_result' =
                    [op |-> "get_new_search_queries", exc |-> d.exc, ret |-> d.ret,
                     next |-> IF d.exc # "" THEN "catch_all"
                              ELSE IF planner_continues(d.ret) THEN "next_round"
                              ELSE "break",
                     batch |-> IF d.exc = "" /\ planner_continues(d.ret)
                               THEN d.ret.items ELSE <<>>]
    /\ UNCHANGED <<search_vars, entry_vars, mgr_vars>>

\* web_search, lines 144-195, against every shape of backend answer
SearchAnswers ==
    { [kind |-> "raise", items |-> <<>>],
      [kind |-> "nokey", items |-> <<>>],
      [kind |-> "results", items |-> <<>>],
      [kind |-> "results", items |-> <<Item(UrlOfficial), Item(UrlNews)>>],
      [kind |-> "results", items |-> <<ItemNoUrl, Item(UrlWiki)>>],
      [kind |-> "results", items |-> <<ItemNone>>],
      [kind |-> "results", items |-> <<Item(UrlOfficial), ItemNone, Item(UrlNews)>>],
      [kind |-> "results", items |-> <<Item(UrlOfficial), Item(UrlNews), ItemNone>>] }

ApplyWebSearch ==
    /\ \E q \in {QueryCeo, QueryRevenue}, resp \in SearchAnswers :
         LET ws == web_search(q, resp)
         IN  /\ fn_call' = [op |-> "web_search", query |-> q, resp |-> resp]
             /\ fn_result' = [op |-> "web_search", links |-> ws.links, log |-> ws.log]
    /\ UNCHANGED <<search_vars, entry_vars, mgr_vars>>

\* process_link, lines 498-511, for a page and for a PDF
ApplyProcessLink ==
    /\ \E link \in {UrlOfficial, UrlPdf} :
         \E out \in LinkOutcomes(link) :
            LET r == process_link(link, out)
            IN  /\ Canonical(link, out, r.calls)
                /\ fn_call' = [op |-> "process_link", link |-> link, out |-> out]
                /\ fn_result' =
                       [op |-> "process_link",
                        page_text |-> fetch_webpage_text(link, out.fetch).ret,
                        usefulness |-> IF Contains(r.calls, "if_useful")
                                       THEN if_useful(out.useful).ret ELSE "",
                        ret |-> r.ret, exc |-> r.exc, calls |-> r.calls, log |-> r.log]
    /\ UNCHANGED <<search_vars, entry_vars, mgr_vars>>

\* if_useful, lines 221-231, on verdicts of every class
VerdictCases ==
    { [class |-> "exact_yes", resp |-> Text(<<"hai">>)],
      [class |-> "exact_yes", resp |-> Text(<<"ws", "Yes", "nl">>)],
      [class |-> "only_yes", resp |-> Text(<<"other", "hai">>)],
      [class |-> "only_yes", resp |-> Text(<<"Yes", "other">>)],
      [class |-> "exact_no", resp |-> Text(<<"iie">>)],
      [class |-> "exact_no", resp |-> Text(<<"No", "ws">>)],
      [class |-> "only_no", resp |-> Text(<<"other", "iie">>)],
      [class |-> "only_no", resp |-> Text(<<"No", "other">>)],
      [class |-> "empty", resp |-> Absent],
      [class |-> "empty", resp |-> Text(<<>>)],
      [class |-> "empty", resp |-> Text(<<"ws">>)],
      [class |-> "neither", resp |-> Text(<<"other">>)],
      [class |-> "both", resp |-> Text(<<"iie", "other", "hai">>)],
      [class |-> "both", resp |-> Text(<<"Yes", "other", "No">>)] }

ApplyIfUseful ==
    /\ \E c \in VerdictCases :
         LET u == if_useful(c.resp)
         IN  /\ fn_call' = [op |-> "if_useful", class |-> c.class, resp |-> c.resp]
             /\ fn_result' = [op |-> "if_useful", ret |-> u.ret, exc |-> u.exc,
                               log |-> u.log]
    /\ UNCHANGED <<search_vars, entry_vars, mgr_vars>>

\* extract_text_from_pdf, lines 350-376, and the text of it that if_useful
\* and extract_relevant_context place in their prompts
ApplyPdfPrompt ==
    /\ \E content \in
            { <<"report", "para", "daihyo_torishimariyaku", "Yamada", "para", "end">>,
              <<"shacho", "ws", "Sato", "nl", "para", "yakuin_ichiran", "Abe">>,
              <<"report", "para", "end">>,
              <<"bulk", "para", "end">>,
              <<"daihyo_torishimariyaku", "Yamada", "para", "bulk">>,
              <<"bulk", "para", "daihyo_torishimariyaku", "Yamada", "para", "end">> } :
         LET resp == [kind |-> "pdf", content |-> content, structured |-> <<>>]
             text == fetch_webpage_text(UrlPdf, resp).ret
         IN  /\ fn_call' = [op |-> "pdf_prompt", link |-> UrlPdf, resp |-> resp]
             /\ fn_result' = [op |-> "pdf_prompt", page_text |-> text,
                               blocks |-> OfficerBlocks(Officers(content)),
                               prompt_text |-> prompt_page_text(text)]
    /\ UNCHANGED <<search_vars, entry_vars, mgr_vars>>

\* MCPClient.get_images, lines 148-190, on the texts the tool may return
LogEntry(step, chars) ==
    JObj(<<Member(<<"step">>, JStr(<<step>>)), Member(<<"query">>, JStr(chars))>>)
ImageEntry(file) ==
    JObj(<<Member(<<"url">>, JStr(<<"https", file, "png">>)),
           Member(<<"description">>, JStr(<<"Acme", "maker">>))>>)
ImageDicts ==
    { JObj(<<Member(<<"image_0">>, ImageEntry("logo")),
             Member(<<"image_1">>, ImageEntry("office")),
             Member(KeyProcessLog,
                    JArr(<<LogEntry("start", <<"Acme">>), LogEntry("links", <<>>),
                           LogEntry("described", <<"Acme", "Corp">>)>>))>>),
      JObj(<<Member(<<"no_images">>, JStr(<<"Acme", "maker">>)),
             Member(KeyProcessLog, JArr(<<LogEntry("start", <<"Acme">>)>>))>>),
      JObj(<<Member(KeyProcessLog, JArr(<<>>)),
             Member(<<"error">>, JStr(<<"failed">>))>>),
      JObj(<<Member(<<"image_0">>, ImageEntry("logo"))>>),
      JObj(<<>>),
      JObj(<<Member(<<"no_images">>, JStr(<<"Acme", "sq", "s">>)),
             Member(KeyProcessLog, JArr(<<LogEntry("start", <<"Acme", "sq", "s">>)>>))>>) }
ToolTexts ==
    { [kind |-> "text", content |-> TextOf(d)] : d \in ImageDicts }
    \cup { [kind |-> "raise", content |-> <<>>],
           [kind |-> "empty", content |-> <<>>],
           [kind |-> "text", content |-> <<>>],
           [kind |-> "text", content |-> <<"oops">>],
           [kind |-> "text", content |-> <<"123">>],
           [kind |-> "text", content |-> TextOf(JArr(<<LogEntry("start", <<"Acme">>)>>))],
           [kind |-> "text",
            content |-> <<"{", "sq", "process_log", "sq", ":", "[", "{", "sq", "step",
                          "sq", ":", "sq", "start", "sq", "}", "]", ",", "sq",
                          "no_images", "sq", ":", "sq", "Acme", "sq", "}">>],
           [kind |-> "text",
            content |-> <<"{", "dq", "image_0", "dq", ":", "{", "dq", "url", "dq", ":",
                          "dq", "logo", "dq", "}", ",", "dq", "process_log", "dq">>] }

\* ---- the get_images tool, lines 731-828
\* An item of the search answer is [image_url, url], each one of
\*   "absent"  the key is missing        "empty"  the empty string
\*   "image"   a valid image URL         "page"   a URL that is no image
\*   "bad"     a value urlparse raises on
ImageKeys == <<"image_0", "image_1", "image_2", "image_3", "image_4", "image_5">>
ItemNames == <<"item1", "item2", "item3">>
\* lines 769-778: [exc, links] gathered from items j, j+1, ...
RECURSIVE image_links_from(_, _)
image_links_from(items, j) ==
    IF j > Len(items) THEN [exc |-> "", links |-> <<>>]
    ELSE IF items[j].image_url = "bad" \/ items[j].url = "bad"
    THEN [exc |-> "TypeError", links |-> <<>>]
    ELSE LET rest == image_links_from(items, j + 1)
         IN  [exc |-> rest.exc,
              links |-> (IF items[j].image_url = "image"
                         THEN <<(<<"https", ItemNames[j], "image_url">>)>> ELSE <<>>)
                        \o (IF items[j].url = "image"
                            THEN <<(<<"https", ItemNames[j], "url">>)>> ELSE <<>>)
                        \o rest.links]
\* line 804: image_links[:2]
images_annotated == 2
annotate_all(links) == links
annotated(links) ==
    SubSeq(links, 1, IF Len(links) < images_annotated THEN Len(links)
                     ELSE images_annotated)
RECURSIVE put_images(_, _, _, _)
put_images(members, links, i, description) ==
    IF i > Len(links) THEN members
    ELSE put_images(
             PutMember(members, <<ImageKeys[i]>>,
                       JObj(<<Member(<<"url">>, JStr(links[i])),
                              Member(<<"description">>, JStr(description))>>)),
             links, i + 1, description)
StepEntry(step) == JObj(<<Member(<<"step">>, JStr(<<step>>))>>)
\* search: [kind: raise | nokey | results, items]; desc: the answer of the
\* generative backend to extract_company_description
get_images(q, search, desc) ==
    LET found == IF search.kind = "results" THEN image_links_from(search.items, 1)
                 ELSE [exc |-> "", links |-> <<>>]
        d == extract_company_description(company_name_of(q), desc)
        started == <<StepEntry("image_search_start")>>
                   \o (IF search.kind = "results"
                       THEN <<StepEntry("search_results")>> ELSE <<>>)
    IN  IF search.kind = "raise" \/ found.exc # ""
        THEN JObj(<<Member(<<"error">>,
                           JStr(<<IF search.kind = "raise" THEN "backend_error"
                                  ELSE found.exc>>)),
                    Member(KeyProcessLog,
                           JArr(IF search.kind = "raise" THEN <<StepEntry("image_search_start"),
                                                                StepEntry("image_search_error")>>
                                ELSE started \o <<StepEntry("image_search_error")>>))>>)
        ELSE IF found.links = <<>>
        THEN JObj(<<Member(<<"no_images">>, JStr(company_name_of(q) \o d.ret)),
                    Member(KeyProcessLog,
                           JArr(started \o <<StepEntry(d.log[1].step),
                                             StepEntry("no_images_found")>>))>>)
        ELSE JObj(PutMember(
                 put_images(<<>>, annotated(found.links), 1,
                            company_name_of(q) \o <<"-">> \o d.ret),
                 KeyProcessLog,
                 JArr(started \o <<StepEntry("image_links"), StepEntry(d.log[1].step),
                                   StepEntry("images_described")>>)))

ImageItems ==
    { <<>>,
      <<[image_url |-> "absent", url |-> "page"]>>,
      <<[image_url |-> "empty", url |-> "empty"], [image_url |-> "page", url |-> "absent"]>>,
      <<[image_url |-> "image", url |-> "page"]>>,
      <<[image_url |-> "absent", url |-> "image"], [image_url |-> "absent", url |-> "image"]>>,
      <<[image_url |-> "image", url |-> "image"], [image_url |-> "page", url |-> "image"]>>,
      <<[image_url |-> "image", url |-> "image"], [image_url |-> "image", url |-> "image"],
        [image_url |-> "absent", url |-> "image"]>>,
      <<[image_url |-> "image", url |-> "image"], [image_url |-> "bad", url |-> "page"]>>,
      <<[image_url |-> "absent", url |-> "bad"]>> }

ApplyGetImages ==
    /\ \E search \in { [kind |-> "raise", items |-> <<>>], [kind |-> "nokey", items |-> <<>>] }
                       \cup { [kind |-> "results", items |-> items] : items \in ImageItems },
          desc \in DescriptionOutcomes :
         /\ fn_call' = [op |-> "get_images", query |-> query, search |-> search,
                         desc |-> desc]
         /\ fn_result' = [op |-> "get_images", ret |-> get_images(query, search, desc)]
    /\ UNCHANGED <<search_vars, entry_vars, mgr_vars>>

ApplyClientGetImages ==
    /\ \E conn \in BOOLEAN, tool \in ToolTexts :
         LET r == MCPClient_get_images(conn, tool)
         IN  /\ fn_call' = [op |-> "MCPClient_get_images", connected |-> conn,
                             tool |-> tool]
             /\ fn_result' = [op |-> "MCPClient_get_images", tag |-> r.tag,
                               error |-> r.error, data |-> r.data,
                               process_log |-> r.process_log]
    /\ UNCHANGED <<search_vars, entry_vars, mgr_vars>>

\* _get_detailed_company_info, lines 199-262, on what MCPClient.search and
\* MCPClient.get_images returned
SearchContents ==
    { <<"facts", "text">>, <<>>, <<"{}">>, <<"[]">>, <<"123">>, <<"null">> }
ApplyDetailedInfo ==
    /\ \E search \in { WithCalls(Success([NoData EXCEPT !.content = c], log), 1) :
                          c \in SearchContents,
                          log \in {<<>>, <<Entry("search_start", ""),
                                            Entry("iteration_start", "")>>} }
                        \cup { Error("not_connected"),
                               WithCalls(Error("transport_error"), 1) },
          images \in ImagesResults :
         /\ fn_call' = [op |-> "get_detailed_company_info", mcp_result |-> search,
                         images |-> images]
         /\ fn_result' = [op |-> "get_detailed_company_info",
                           ret |-> get_detailed_company_info(search, images)]
    /\ UNCHANGED <<search_vars, entry_vars, mgr_vars>>

NextFn ==
    \/ ApplyDetailedInfo
    \/ ApplyGetImages
    \/ ApplyClientGetImages
    \/ ApplyPdfPrompt
    \/ ApplyGenerateQuery
    \/ ApplyPlanner
    \/ ApplyWebSearch
    \/ ApplyProcessLink
    \/ ApplyIfUseful

\* ------------------------------------------------------------ specifications
vars == <<search_vars, entry_vars, mgr_vars, fn_vars>>
Init == InitSearch /\ InitEntry /\ InitMgr /\ InitSvc /\ InitFn
InitOneQuery == Init /\ query = <<"Acme">>

Spec == Init /\ [][NextSearch]_vars
SpecEntry == InitOneQuery /\ [][NextEntry]_vars
SpecMgr == InitOneQuery /\ [][NextMgr]_vars
SpecFn == InitOneQuery /\ [][NextFn]_vars
SpecSvc == InitOneQuery /\ [][NextSvc]_vars

\* ================================================================= claims
Returned == pc \in {"done", "client_done", "service_done"}

\* Lexicographic variant of search(): rounds left, phase, items left in the phase.
PhaseRank ==
    CASE pc = "init" -> 7
      [] pc = "loop" -> 6
      [] pc = "searching" -> 5
      [] pc = "extracting" -> 4
      [] pc = "deciding" -> 3
      [] pc = "finish" -> 2
      [] OTHER -> 1
ItemsLeft ==
    CASE pc = "searching" -> Len(new_search_queries.items) + 1 - q_idx
      [] pc = "extracting" -> Len(unique_links) + 1 - link_idx
      [] OTHER -> 0
LexLess(a, b) ==
    \/ a[1] < b[1]
    \/ a[1] = b[1] /\ a[2] < b[2]
    \/ a[1] = b[1] /\ a[2] = b[2] /\ a[3] < b[3]
Variant == <<iteration_limit - iteration, PhaseRank, ItemsLeft>>
VariantNext == <<iteration_limit - iteration', PhaseRank', ItemsLeft'>>

\* C1: whatever the continuation planner answers, the round body of search()
\* is entered at most 3 times and search() returns: the round counter never
\* passes the cap, every step before the return lowers a well-founded variant
\* (rounds left, phase, items left), a step is always possible until search()
\* has returned, and a result is set once it has.
C1_TerminatesWithinThreeRounds ==
    /\ [](/\ rounds <= iteration_limit
          /\ iteration <= iteration_limit
          /\ ItemsLeft >= 0
          /\ (pc \in {"searching", "extracting", "deciding"}
                => iteration < iteration_limit)
          /\ (~Returned => ENABLED NextSearch)
          /\ (Returned => result # NoResult))
    /\ [][~Returned => LexLess(VariantNext, Variant)]_search_vars
\* the cap stopped a planner that still asked for more queries
C1_Witness ==
    /\ pc = "done"
    /\ rounds = iteration_limit
    /\ iteration = iteration_limit
    /\ new_search_queries.items # <<>>
    /\ caught = ""

\* C2: when search() finishes with no block accumulated, the content it
\* returns is the fallback description: not empty, and not the error message
\* of the final handler.
FallbackUsed ==
    \E i \in 1..Len(process_log) :
        process_log[i].step \in {"description_generation",
                                 "description_generation_error"}
C2_FallbackContentNeverEmpty ==
    (pc = "done" /\ FallbackUsed) => (result.content # <<>> /\ caught = "")

\* C4: a generative failure while judging or extracting one link, or in the
\* planner, skips that unit only: the links left in the round are still
\* processed and every block accumulated before it is in the returned content.
C4_GenerativeFailureSkipsOneUnit ==
    (pc = "done" /\ failure.site # "") =>
        /\ link_idx > Len(unique_links)
        /\ \A i \in 1..Len(failure.blocks) :
               IsSubstring(failure.blocks[i], result.content)
        /\ \E i \in 1..Len(result.process_log) :
               result.process_log[i].error # "" /\ result.process_log[i].step # "error"

\* C5: an exception converted by the final handler of search() reaches the
\* caller of the advanced path as an error-tagged result carrying its message.
C5_CatchAllSurfacesAsError ==
    (pc = "service_done" /\ caught # "") =>
        /\ mcp_result.tag = "error"
        /\ company_result.tag = "error"
        /\ company_result.error = caught

\* C7: web_search never returns a link whose domain holds an excluded-domain
\* token (the encyclopedia host en.wikipedia.org of the specification).
ExcludedDomainTokens == {"wikipedia"}
Excluded(link) == \E i \in 1..Len(link.host) : link.host[i] \in ExcludedDomainTokens
C7_NoExcludedDomainReturned ==
    \A i \in 1..Len(search_results) :
        \A j \in 1..Len(search_results[i]) : ~Excluded(search_results[i][j])

\* C10: the initial query batch of search() holds between 4 and 10 queries.
C10_InitialBatchSize ==
    (pc = "loop" /\ rounds = 0) =>
        (Len(new_search_queries.items) >= 4 /\ Len(new_search_queries.items) <= 10)

\* C3: get_company_info, generate_report and MCPClient.search return, for every
\* input and every backend answer, a success-tagged or an error-tagged result
\* (an error-tagged one carries a message); no exception escapes to the caller.
EntryPoints == {"get_company_info", "generate_report", "MCPClient_search"}
C3_EntryPointsReturnTaggedResults ==
    ep_call.op \in EntryPoints =>
        /\ ep_result.tag \in {"success", "error"}
        /\ (ep_result.tag = "error" <=> ep_result.error # "")
\* a backend raised inside an entry point and the caller got an error result
C3_Witness ==
    /\ ep_call.op = "get_company_info"
    /\ ep_call.client
    /\ ep_call.depth = "basic"
    /\ ep_call.name = "name"
    /\ ep_call.found = "raise"
    /\ ep_result.tag = "error"
    /\ ep_result.error = "search_failed"
    /\ ep_result.calls = 1

\* C6: with the credential missing, get_company_info and generate_report
\* return an error-tagged result without any backend call, and
\* handle_report_generation returns its error tuple with no service
\* constructed and no backend call.
C6_MissingCredentialFailsFast ==
    /\ (ep_call.op \in {"get_company_info", "generate_report"} /\ ~ep_call.client
           => ep_result.tag = "error" /\ ep_result.calls = 0)
    /\ (ep_call.op = "handle_report_generation"
           /\ (~ep_call.tavily_key \/ ~ep_call.openai_key)
           => ep_result.tag = "error" /\ ep_result.calls = 0 /\ ep_services = 0)
\* an advanced request on a connected handle whose tool would have answered
C6_Witness ==
    /\ ep_call.op = "get_company_info"
    /\ ~ep_call.client
    /\ ep_call.depth = "advanced"
    /\ ep_call.connected
    /\ ep_call.tool.kind = "text"
    /\ ep_result = Error("api_key_not_set")

\* C8: while no get_instance or close call begins during another one's await,
\* every get_instance call since the last close returned the one current
\* handle, connect_to_server was invoked exactly once on it, and it is not a
\* handle that was handed out before a close.
C8_SequentialCallsShareOneHandle ==
    ~overlapped =>
        /\ Cardinality(returned) <= 1
        /\ \A h \in returned : h = instance /\ connects[h] = 1
        /\ returned \cap retired = {}
        /\ \A h \in 1..handles : connects[h] = 1
\* two calls shared the first handle, a close, then a call got a fresh one
C8_Witness ==
    /\ ~overlapped
    /\ calls_made = 3
    /\ closed = 1
    /\ retired = {1}
    /\ returned = {2}
    /\ \E c \in Callers : task[c] = "holding" /\ held[c] = 2 /\ connected[2]

\* C9: with callers interleaving at the await of connect_to_server and no
\* close, at most one duplicate handle is created, and no caller's search
\* answers "not connected" on a handle whose connection attempt succeeds.
C9_ConcurrentCallersGetConnectedHandle ==
    (closed = 0 /\ \A c \in Callers : task[c] # "closing") =>
        /\ handles <= 2
        /\ \A c \in Callers :
               answer[c] = "not_connected" => connecting[held[c]] # "ok"

\* C11: every query issued to web_search in a round contains the caller's
\* subject name (all of its words, contiguous) as a substring.
C11_QueriesContainSubject ==
    pc \in {"searching", "extracting", "deciding"} =>
        \A i \in 1..Min(q_idx - 1, Len(new_search_queries.items)) :
            IsSubstring(query, new_search_queries.items[i])

\* C12: when the generative backend raises in generate_query, the log starts
\* with the error entry, nothing is raised to search(), and round 1 issues
\* the three fallback queries built from the first word of the query.
GenerateQueryRaised ==
    /\ pc # "init"
    /\ process_log[1] = Entry("query_generation_error", "backend_error")
FixedFallback ==
    LET cn == <<Head(query)>>
    IN  << cn \o <<"daihyo_torishimariyaku", "yakuin_ichiran">>,
           cn \o <<"kaisha_gaiyo", "setsuritsu_nen", "shihonkin">>,
           cn \o <<"jigyo_naiyo", "shuyo_seihin", "service">> >>
C12_GenerateQueryFallsBack ==
    GenerateQueryRaised =>
        /\ (rounds = 0 => pc = "loop" /\ caught = "")
        /\ (rounds = 0 \/ (rounds = 1 /\ pc \in {"searching", "extracting", "deciding"})
               => new_search_queries = PyList(FixedFallback))
        /\ SubSeq(all_search_queries, 1, 3) = FixedFallback
        /\ process_log[2] = Entry("search_start", "")
\* round 1 issued all three fallback queries
C12_Witness ==
    /\ GenerateQueryRaised
    /\ rounds = 1
    /\ pc = "searching"
    /\ q_idx = 4
    /\ Len(search_results) = 3

\* C13: for a backend answer made of prose, a list display of strings and
\* prose, the initial batch is exactly the listed strings in order; for an
\* answer with no list display, with one that does not decode, or with an
\* empty list, it is the four subject+category template queries.
Template(q) ==
    LET cn == <<Head(q)>>
    IN  << cn \o <<"daihyo_torishimariyaku", "yakuin_ichiran">>,
           cn \o <<"kaisha_gaiyo", "setsuritsu_nen", "shihonkin">>,
           cn \o <<"jigyo_naiyo", "shuyo_seihin", "service">>,
           cn \o <<"kigyo_rinen", "keiei_rinen">> >>
C13_ListParsingToleratesProse ==
    (fn_call.op = "generate_query" /\ fn_call.resp.kind = "text") =>
        fn_result.batch = IF fn_call.listed /\ fn_call.items # <<>>
                          THEN fn_call.items
                          ELSE Template(fn_call.query)
\* prose with a ']' before the list and with a '[' after it
C13_Witness ==
    /\ fn_call.op = "generate_query"
    /\ fn_call.listed
    /\ fn_call.pre = <<Prose, RB, Ws>>
    /\ fn_call.post = <<Ws, LB, Prose>>
    /\ fn_call.items = <<QueryRevenue, QueryCeo>>
    /\ fn_result.batch = <<QueryRevenue, QueryCeo>>

\* C14: when the planner's answer is absent, empty, blank, does not decode,
\* decodes to a value that is no list, or decodes to the empty list, nothing
\* is raised and search() breaks out of the loop instead of starting a round.
NoFurtherQueries ==
    {"absent", "empty", "blank", "decode_failure", "non_list", "empty_list"}
C14_MalformedPlannerAnswerStops ==
    (fn_call.op = "get_new_search_queries" /\ fn_call.class \in NoFurtherQueries) =>
        /\ fn_result.exc = ""
        /\ fn_result.next = "break"
        /\ fn_result.batch = <<>>
\* a well-formed list with prose before it does not decode
C14_Witness ==
    /\ fn_call.op = "get_new_search_queries"
    /\ fn_call.resp = Text(<<Prose, LB, Lit(QueryPresident), RB>>)
    /\ fn_result.ret = PyList(<<>>)
    /\ fn_result.next = "break"

\* C15: the batch the planner hands to the next round holds at most 4 queries.
C15_PlannerBatchAtMostFour ==
    fn_call.op = "get_new_search_queries" => Len(fn_result.batch) <= 4

\* C16: when the fetch of a link fails (the backend raises or has no results
\* for a page; the download status is not 200 or an exception occurs for a
\* PDF) the page text is the empty string and the relevance filter is not
\* called.
FetchFailed(resp) == resp.kind \in {"raise", "noresults", "status"}
C16_FailedFetchYieldsEmptyText ==
    (fn_call.op = "process_link" /\ FetchFailed(fn_call.out.fetch)) =>
        /\ fn_result.page_text = EmptyStr
        /\ ~Contains(fn_result.calls, "if_useful")

\* C17: web_search always returns; when the backend fails (it raises, answers
\* without results, or an item of its answer cannot be read) exactly one log
\* entry carrying an error is recorded and the links returned are either
\* none or the sentinel alone; the sentinel never accompanies a real link.
BackendFailed(resp) == resp.kind # "results" \/ Contains(resp.items, ItemNone)
C17_WebSearchFailureIsContained ==
    fn_call.op = "web_search" =>
        /\ Len(fn_result.log) = 1
        /\ BackendFailed(fn_call.resp) =>
               /\ fn_result.log[1].error # ""
               /\ fn_result.links \in {<<>>, <<UrlSearchFailed>>}
        /\ Contains(fn_result.links, UrlSearchFailed) =>
               fn_result.links = <<UrlSearchFailed>>
\* the backend fails after a readable item has been gathered
C17_Witness ==
    /\ fn_call.op = "web_search"
    /\ fn_call.resp.items = <<Item(UrlOfficial), ItemNone, Item(UrlNews)>>
    /\ fn_result.links = <<UrlSearchFailed>>
    /\ fn_result.log = <<Entry("web_search_error", "TypeError")>>

\* C18: if_useful answers "Yes" exactly when the verdict is an affirmative
\* token or holds an affirmative marker and no negative one; an empty verdict,
\* one with neither marker and one with both markers give "No".
C18_AmbiguousVerdictIsNo ==
    fn_call.op = "if_useful" =>
        /\ fn_result.exc = ""
        /\ fn_result.ret = IF fn_call.class \in {"exact_yes", "only_yes"}
                           THEN "Yes" ELSE "No"

\* C19: the log search() returns still holds, in order and unchanged, every
\* entry appended to the process log during the invocation.
C19_ReturnedLogKeepsEveryEntry ==
    pc = "done" => IsPrefix(process_log, result.process_log)

\* C20: in a round, the links handed to extraction are the links of all
\* result lists of the round without repetition, in the order in which they
\* were first seen, each recorded with the earliest query of the round whose
\* result list holds it; each of them is fetched once.
InResults(k, u) == Contains(search_results[k], u)
FirstQuery(u) ==
    CHOOSE k \in 1..Len(search_results) :
        InResults(k, u) /\ \A j \in 1..(k - 1) : ~InResults(j, u)
FirstPosition(u) ==
    CHOOSE p \in 1..Len(search_results[FirstQuery(u)]) :
        /\ search_results[FirstQuery(u)][p] = u
        /\ \A r \in 1..(p - 1) : search_results[FirstQuery(u)][r] # u
SeenBefore(u, w) ==
    \/ FirstQuery(u) < FirstQuery(w)
    \/ FirstQuery(u) = FirstQuery(w) /\ FirstPosition(u) < FirstPosition(w)
Fetches == Len(SelectSeq(trace, LAMBDA c : c = "fetch"))
C20_UniqueLinksFirstSeen ==
    pc \in {"extracting", "deciding"} =>
        /\ { unique_links[i].link : i \in 1..Len(unique_links) }
              = UNION { { search_results[k][p] : p \in 1..Len(search_results[k]) } :
                        k \in 1..Len(search_results) }
        /\ \A i, j \in 1..Len(unique_links) :
              i < j => /\ unique_links[i].link # unique_links[j].link
                       /\ SeenBefore(unique_links[i].link, unique_links[j].link)
        /\ \A i \in 1..Len(unique_links) :
              unique_links[i].query
                  = new_search_queries.items[FirstQuery(unique_links[i].link)]
        /\ Fetches = link_idx - 1
        /\ (pc = "deciding" => Fetches = Len(unique_links))
\* two queries of the round returned the same link and every link was fetched
C20_Witness ==
    /\ pc = "deciding"
    /\ \E k1, k2 \in 1..Len(search_results) :
          /\ k1 < k2
          /\ new_search_queries.items[k1] # new_search_queries.items[k2]
          /\ \E u \in { search_results[k1][p] : p \in 1..Len(search_results[k1]) } :
                InResults(k2, u)
    /\ Len(unique_links) >= 2

\* C21: search() moves Init -> Searching(r) -> Extracting(r) -> Deciding(r)
\* -> Searching(r+1) or Done.  In a round every query of the batch has been
\* searched before the first link is fetched, every link has been processed
\* before the planner is called, the planner is called once, and the next
\* round searches the batch the planner returned.
Calls(t, c) == Len(SelectSeq(t, LAMBDA x : x = c))
PhaseSteps ==
    { <<"init", "loop">>, <<"loop", "searching">>, <<"loop", "finish">>,
      <<"searching", "searching">>, <<"searching", "extracting">>,
      <<"extracting", "extracting">>, <<"extracting", "deciding">>,
      <<"extracting", "done">>, <<"deciding", "loop">>, <<"deciding", "finish">>,
      <<"deciding", "done">>, <<"finish", "done">>, <<"done", "client_done">>,
      <<"client_done", "service_done">> }
C21_RoundPhasesInOrder ==
    [][ /\ <<pc, pc'>> \in PhaseSteps
        /\ (pc = "loop" /\ pc' = "searching") =>
               /\ trace' = <<>> /\ q_idx' = 1 /\ rounds' = rounds + 1
               /\ new_search_queries' = new_search_queries
        /\ pc = "searching" =>
               /\ new_search_queries' = new_search_queries
               /\ Calls(trace, "web_search") = q_idx - 1
               /\ Calls(trace, "fetch") = 0
               /\ (pc' = "searching" => trace' = Append(trace, "web_search"))
               /\ (pc' = "extracting" =>
                      /\ trace' = trace
                      /\ Calls(trace, "web_search") = Len(new_search_queries.items))
        /\ pc = "extracting" =>
               /\ new_search_queries' = new_search_queries
               /\ Calls(trace, "web_search") = Len(new_search_queries.items)
               /\ Calls(trace', "web_search") = Calls(trace, "web_search")
               /\ Calls(trace', "planner") = 0
               /\ (pc' = "deciding" =>
                      trace' = trace /\ Calls(trace, "fetch") = Len(unique_links))
        /\ pc = "deciding" =>
               /\ Calls(trace, "planner") = 0
               /\ trace' = Append(trace, "planner")
               /\ (pc' = "loop" =>
                      /\ new_search_queries'.kind = "list"
                      /\ new_search_queries'.items # <<>>
                      /\ all_search_queries'
                            = all_search_queries \o new_search_queries'.items)
      ]_search_vars
\* the second round has searched the two queries the planner returned
C21_Witness ==
    /\ rounds = 2
    /\ pc = "deciding"
    /\ new_search_queries = PyList(<<QueryPresident, QueryCapital>>)
    /\ Calls(trace, "web_search") = 2
    /\ Calls(trace, "fetch") = Len(unique_links)
    /\ Len(unique_links) >= 2

\* C22: for a link, extract_relevant_context is called only after the fetch
\* returned non-empty text and if_useful answered "Yes"; a link whose fetched
\* text is empty or whose verdict is not "Yes" causes no extraction call and
\* yields no block.
C22_FilterGatesExtraction ==
    fn_call.op = "process_link" =>
        /\ Contains(fn_result.calls, "extract") =>
               /\ Truthy(fn_result.page_text)
               /\ fn_result.usefulness = "Yes"
               /\ fn_result.calls = <<"fetch", "if_useful", "extract">>
        /\ (~Truthy(fn_result.page_text) \/ fn_result.usefulness # "Yes") =>
               /\ ~Contains(fn_result.calls, "extract")
               /\ fn_result.ret = None
\* the page was fetched and judged not useful
C22_Witness ==
    /\ fn_call.op = "process_link"
    /\ fn_call.out.useful = Text(<<"iie">>)
    /\ Truthy(fn_result.page_text)
    /\ fn_result.usefulness = "No"
    /\ fn_result.calls = <<"fetch", "if_useful">>
    /\ fn_result.ret = None

\* C23: a round that produced no block still ends in the planner; when the
\* planner returns queries the round counter advances and, below the round
\* cap, the next round starts.
C23_EmptyRoundStillAsksPlanner ==
    [][ /\ (pc = "extracting" /\ pc' \notin {"extracting", "done"}) => pc' = "deciding"
        /\ (pc = "deciding" /\ iteration_contexts = <<>>) =>
               /\ trace' = Append(trace, "planner")
               /\ (pc' # "done" /\ new_search_queries'.kind = "list"
                      /\ new_search_queries'.items # <<>>) =>
                      pc' = "loop" /\ iteration' = iteration + 1
        /\ (pc = "loop" /\ iteration < 3) =>
               pc' = "searching" /\ rounds' = rounds + 1
      ]_search_vars
\* no round has produced a block and a further round has started
C23_Witness ==
    /\ pc = "searching"
    /\ rounds >= 2
    /\ aggregated_contexts = <<>>
    /\ iteration_contexts = <<>>
    /\ new_search_queries.items # <<>>

\* C24: for every PDF, the officer blocks appended to its text are part of
\* the page text that if_useful and extract_relevant_context put in the
\* prompt, also when the page text is longer than 20,000 characters.
C24_OfficerBlocksReachPrompt ==
    (fn_call.op = "pdf_prompt" /\ fn_result.blocks # <<>>) =>
        IsSubstring(fn_result.blocks, fn_result.prompt_text)

\* C25: when MCPClient.get_images returns a success result built from a
\* decoded dictionary, the data returned has no "process_log" key and keeps
\* every other member in place, and the entries that were under that key
\* are the result's process_log, unchanged and in order (the empty list when
\* the key is absent).
DecodedDict(tool) ==
    /\ tool.kind = "text"
    /\ json_loads(replace_quotes(tool.content)).ok
    /\ json_loads(replace_quotes(tool.content)).val.k = "obj"
DecodedItems(tool) == json_loads(replace_quotes(tool.content)).val.items
C25_ProcessLogHoisted ==
    (/\ fn_call.op = "MCPClient_get_images"
     /\ fn_call.connected
     /\ DecodedDict(fn_call.tool)) =>
        /\ fn_result.tag = "success"
        /\ \A i \in 1..Len(fn_result.data.items) :
              fn_result.data.items[i].key # <<"process_log">>
        /\ fn_result.data.items
              = SelectSeq(DecodedItems(fn_call.tool),
                          LAMBDA m : m.key # <<"process_log">>)
        /\ \A i \in 1..Len(DecodedItems(fn_call.tool)) :
              DecodedItems(fn_call.tool)[i].key = <<"process_log">> =>
                  fn_result.process_log = DecodedItems(fn_call.tool)[i].val
        /\ (\A i \in 1..Len(DecodedItems(fn_call.tool)) :
              DecodedItems(fn_call.tool)[i].key # <<"process_log">>) =>
                  fn_result.process_log = JArr(<<>>)
\* two images and a log of three entries
C25_Witness ==
    /\ fn_call.op = "MCPClient_get_images"
    /\ fn_call.connected
    /\ DecodedDict(fn_call.tool)
    /\ Len(DecodedItems(fn_call.tool)) = 3
    /\ Len(fn_result.data.items) = 2
    /\ fn_result.process_log
         = JArr(<<LogEntry("start", <<"Acme">>), LogEntry("links", <<>>),
                  LogEntry("described", <<"Acme", "Corp">>)>>)

\* C26: the mapping get_images returns holds at most 3 image entries, keyed
\* image_0, image_1, ... without a gap, each with exactly a url and a
\* description; it holds a "no_images" note exactly when it holds no image
\* entry and no error.
ImageCount(d) ==
    Len(SelectSeq(d.items,
                  LAMBDA m : \E i \in 1..Len(ImageKeys) : m.key = <<ImageKeys[i]>>))
C26_AtMostThreeImages ==
    fn_call.op = "get_images" =>
        LET d == fn_result.ret
            n == ImageCount(d)
        IN  /\ n <= 3
            /\ \A i \in 1..n :
                  /\ d.items[i].key = <<ImageKeys[i]>>
                  /\ d.items[i].val.k = "obj"
                  /\ Len(d.items[i].val.items) = 2
                  /\ d.items[i].val.items[1].key = <<"url">>
                  /\ d.items[i].val.items[2].key = <<"description">>
            /\ HasKey(d, <<"no_images">>) <=> (n = 0 /\ ~HasKey(d, <<"error">>))
\* five valid image links were found
C26_Witness ==
    /\ fn_call.op = "get_images"
    /\ fn_call.search.kind = "results"
    /\ Len(image_links_from(fn_call.search.items, 1).links) = 5
    /\ ImageCount(fn_result.ret) = 2
    /\ ~HasKey(fn_result.ret, <<"no_images">>)

\* C27: every call made on the shared session runs on the event loop the
\* session was connected on, and that loop is open at the time of the call.
C27_SessionUsedOnItsOpenLoop ==
    use.handle # 0 => use.on_loop = use.session_loop /\ use.session_loop_open

\* C28: while the manager holds a handle whose connect_to_server failed and
\* no close completes, the manager keeps that handle and connects nothing,
\* every get_instance that returns hands out that handle, and every search
\* on it answers "not connected".
C28_FailedHandleIsKept ==
    [][ (instance # 0 /\ connecting[instance] = "failed" /\ closed' = closed) =>
            /\ instance' = instance
            /\ handles' = handles
            /\ connects' = connects
            /\ ~connected'[instance]
            /\ connecting'[instance] = "failed"
            /\ \A c \in Callers :
                  /\ (task[c] = "idle" /\ task'[c] = "holding") => held'[c] = instance
                  /\ (task[c] = "holding" /\ task'[c] = "idle" /\ held[c] = instance) =>
                         answer'[c] = "not_connected"
      ]_mgr_vars
\* a later get_instance returned the failed handle and the search on it
\* was refused
C28_Witness ==
    /\ instance # 0
    /\ connecting[instance] = "failed"
    /\ connects[instance] = 1
    /\ closed = 0
    /\ calls_made >= 2
    /\ \A c \in Callers : held[c] = instance /\ answer[c] = "not_connected"

\* C29: with a company name and both API keys, handle_report_generation
\* calls get_company_info with arguments it accepts, and when the company
\* research succeeds it constructs the report service and returns what
\* generate_report returns.
C29_HandlerReachesReport ==
    (/\ ep_call.op = "handle_report_generation"
     /\ ep_call.name_given /\ ep_call.tavily_key /\ ep_call.openai_key) =>
        /\ ep_result.error # "TypeError"
        /\ get_company_info(ep_call).tag = "success" =>
               /\ ep_services = 2
               /\ ep_result.tag = generate_report(ep_call).tag

\* C30: when the MCP search step returned a success result, the advanced
\* path returns a success result whose data holds "search_process_log" with
\* the search's process log, whether get_images succeeded or failed and
\* whatever the search content is.
C30_SearchLogAlwaysReturned ==
    (/\ fn_call.op = "get_detailed_company_info"
     /\ fn_call.mcp_result.tag = "success") =>
        /\ fn_result.ret.tag = "success"
        /\ "search_process_log" \in fn_result.ret.data.keys
        /\ fn_result.ret.data.search_process_log = fn_call.mcp_result.process_log
====
